---- MODULE Spec2Model ----
(***************************************************************************)
(* Model of mini-ccstatus' token accounting: the Safe Arithmetic helpers   *)
(* (src/src/safe_conv.c), the Token Extractor (src/src/token_calculator.c),*)
(* the Session Cache (src/src/cache.c) and the Cache Orchestrator          *)
(* (mccs_process_json in src/main.c).                                      *)
(*                                                                         *)
(* Six specifications share the variables below:                           *)
(*   SpecParse  the three transcript scans applied to bounded transcripts  *)
(*   SpecOrch   a sequence of invocations of mccs_process_json on one      *)
(*              cache file, with the transcript, the clock and the cache   *)
(*              file changing between them                                 *)
(*   SpecCache  processes running load_cache and save_cache step by step   *)
(*              on one cache file, with flock and the stdio buffer         *)
(*   SpecCacheFair  SpecCache with one process that keeps being scheduled  *)
(*   SpecTrip   one save_cache followed by one load_cache with nothing     *)
(*              in between                                                 *)
(*   SpecArith  the Safe Arithmetic helpers, calculate_total_tokens and    *)
(*              calculate_percentage applied to bounded operands           *)
(***************************************************************************)
EXTENDS Integers, Sequences, FiniteSets, TLC

(***************************************************************************)
(* Bounds of the model.                                                    *)
(***************************************************************************)
\* uint64_t is modelled with this maximum instead of 2^64-1
UINT64_MAX == 7
\* uint32_t is modelled with this maximum instead of 2^32-1
UINT32_MAX == 3
\* the factor 100 of a percentage, scaled down with the integer widths so
\* that PERCENT < UINT32_MAX < UINT64_MAX as 100 < 2^32-1 < 2^64-1
PERCENT == 2
\* longest transcript (in lines) of SpecParse
MaxLines == 3

(***************************************************************************)
(* State.                                                                  *)
(***************************************************************************)
VARIABLES
  castUB,       \* what (uint64_t)d yields for d = 2^64 on this build
  transcript,   \* the transcript file: [exists, readable, lines]
  \* SpecParse
  sessionScan,  \* the call of parse_session_tokens: [done, res]
  contextScan,  \* the call of count_context_tokens: [done, crashed, res]
  singlePass,   \* the call of parse_tokens_single_pass: [done, wantS, wantC, res]
  \* SpecOrch
  cacheFile,    \* the session's cache file: [exists, data]
  now,          \* time(NULL)
  ticks,        \* how often the clock was advanced
  inv,          \* the last invocation of mccs_process_json: inputs and outputs
  sameSize,     \* the transcript was changed without changing its size
  \* SpecCache
  proc,         \* the processes inside load_cache and save_cache
  savedArgs,    \* the records save_cache has been called with
  \* SpecTrip
  trip,         \* a save_cache followed by a load_cache: inputs and results
  \* SpecArith
  arith         \* a call of a helper: [in, op, res]

(***************************************************************************)
(* Results (src/src/result.h): a tagged union, is_ok plus value or error.  *)
(***************************************************************************)
MCCS_OK == "none"
MCCS_ERR_FILE_NOT_FOUND == "file-not-found"
MCCS_ERR_INVALID_JSON == "invalid-json"
MCCS_ERR_INVALID_FORMAT == "invalid-format"
MCCS_ERR_IO_ERROR == "io-error"
MCCS_ERR_INVALID_CONVERSION == "invalid-conversion"
MCCS_ERR_OVERFLOW == "overflow"

OkU64(v) == [is_ok |-> TRUE, err |-> MCCS_OK, val |-> v]
ErrU64(e) == [is_ok |-> FALSE, err |-> e, val |-> 0]
OkU32(v) == [is_ok |-> TRUE, err |-> MCCS_OK, val |-> v]
ErrU32(e) == [is_ok |-> FALSE, err |-> e, val |-> 0]

(***************************************************************************)
(* JSON numbers.  cJSON keeps a number as a double; the model keeps a      *)
(* double as a count of halves (h = 2 * value), so that 1.5 is h = 3, or   *)
(* as the non-finite value that an out-of-range literal parses to.  The    *)
(* doubles next to 2^64 are 2^64 - 2048 and 2^64: no double lies strictly  *)
(* between UINT64_MAX - 1 and UINT64_MAX + 1 of the model.                 *)
(* A field of a usage object is absent, present but not a number, or a     *)
(* number.                                                                 *)
(***************************************************************************)
Absent == [t |-> "absent", h |-> 0]
NonNum == [t |-> "nonnum", h |-> 0]
Num(n) == [t |-> "num", h |-> 2 * n]
Half(n) == [t |-> "num", h |-> 2 * n + 1]
Inf == [t |-> "inf", h |-> 0]
MinusInf == [t |-> "-inf", h |-> 0]
\* not a number: no JSON literal parses to it
NaN == [t |-> "nan", h |-> 0]

isfinite(f) == f.t = "num"
cJSON_IsNumber(f) == f.t \in {"num", "inf", "-inf"}
Present(f) == f.t # "absent"

\* (double)UINT64_MAX: 2^64-1 is not a double and rounds up to 2^64
DoubleOfUINT64_MAX == UINT64_MAX + 1

(***************************************************************************)
(* safe_conv.c                                                             *)
(***************************************************************************)
\* castUB is the value the build's double -> uint64_t cast gives for 2^64,
\* which is outside the range of uint64_t (undefined behaviour)

safe_double_to_uint64(f) ==
  IF ~isfinite(f) THEN ErrU64(MCCS_ERR_INVALID_CONVERSION)
  ELSE IF f.h < 0 THEN ErrU64(MCCS_ERR_INVALID_CONVERSION)
  ELSE IF f.h > 2 * DoubleOfUINT64_MAX THEN ErrU64(MCCS_ERR_INVALID_CONVERSION)
  ELSE IF f.h \div 2 > UINT64_MAX THEN OkU64(castUB)
  ELSE OkU64(f.h \div 2)

\* (double)UINT32_MAX is 2^32-1 itself, and every value that passes the
\* three tests is in the range of uint32_t
safe_double_to_uint32(f) ==
  IF ~isfinite(f) THEN ErrU32(MCCS_ERR_INVALID_CONVERSION)
  ELSE IF f.h < 0 THEN ErrU32(MCCS_ERR_INVALID_CONVERSION)
  ELSE IF f.h > 2 * UINT32_MAX THEN ErrU32(MCCS_ERR_INVALID_CONVERSION)
  ELSE OkU32(f.h \div 2)

\* safe_add_uint64 with ">=" for ">"
safe_add_uint64_strict(a, b) ==
  IF a >= UINT64_MAX - b THEN ErrU64(MCCS_ERR_OVERFLOW)
  ELSE OkU64((a + b) % (UINT64_MAX + 1))

safe_add_uint64(a, b) ==
  IF a > UINT64_MAX - b THEN ErrU64(MCCS_ERR_OVERFLOW)
  ELSE OkU64((a + b) % (UINT64_MAX + 1))

\* safe_mul_uint64 without the test for a zero operand ahead of the division
safe_mul_uint64_by_division(a, b) ==
  IF b = 0 THEN ErrU64(MCCS_ERR_OVERFLOW)
  ELSE IF a > UINT64_MAX \div b THEN ErrU64(MCCS_ERR_OVERFLOW)
  ELSE OkU64((a * b) % (UINT64_MAX + 1))

safe_mul_uint64(a, b) ==
  IF a = 0 \/ b = 0 THEN OkU64(0)
  ELSE IF a > UINT64_MAX \div b THEN ErrU64(MCCS_ERR_OVERFLOW)
  ELSE OkU64((a * b) % (UINT64_MAX + 1))

safe_add_uint32(a, b) ==
  IF a > UINT32_MAX - b THEN ErrU32(MCCS_ERR_OVERFLOW)
  ELSE OkU32((a + b) % (UINT32_MAX + 1))

(***************************************************************************)
(* token_calculator.c: token_counts                                        *)
(***************************************************************************)
TokenCounts(i, o, cc, cr, tot) ==
  [input_tokens |-> i, output_tokens |-> o, cache_creation_tokens |-> cc,
   cache_read_tokens |-> cr, total_tokens |-> tot]

init_token_counts == TokenCounts(0, 0, 0, 0, 0)

\* the third addition of calculate_total_tokens
TotalStep3(s2, tokens) ==
  IF ~s2.is_ok THEN ErrU64(MCCS_ERR_OVERFLOW)
  ELSE LET s3 == safe_add_uint64(s2.val, tokens.cache_read_tokens)
       IN  IF ~s3.is_ok THEN ErrU64(MCCS_ERR_OVERFLOW) ELSE OkU64(s3.val)

\* the second addition of calculate_total_tokens
TotalStep2(s1, tokens) ==
  IF ~s1.is_ok THEN ErrU64(MCCS_ERR_OVERFLOW)
  ELSE TotalStep3(safe_add_uint64(s1.val, tokens.cache_creation_tokens), tokens)

\* calculate_total_tokens with the additions of uint64_t, unchecked
calculate_total_tokens_unchecked(tokens) ==
  OkU64((tokens.input_tokens + tokens.output_tokens + tokens.cache_creation_tokens
         + tokens.cache_read_tokens) % (UINT64_MAX + 1))

calculate_total_tokens(tokens) ==
  TotalStep2(safe_add_uint64(tokens.input_tokens, tokens.output_tokens), tokens)

\* "if (clamp && pct > 100) return 100;
\*  return (uint32_t)(pct > UINT32_MAX ? UINT32_MAX : pct);"
ClampPercentage(pct, clamp) ==
  IF clamp /\ pct > PERCENT THEN PERCENT
  ELSE IF pct > UINT32_MAX THEN UINT32_MAX ELSE pct

\* calculate_percentage with the product taken modulo 2^64
calculate_percentage_wrapping(tokens, limit, clamp) ==
  IF limit = 0 THEN 0
  ELSE ClampPercentage(((tokens * PERCENT) % (UINT64_MAX + 1)) \div limit, clamp)

calculate_percentage(tokens, limit, clamp) ==
  IF limit = 0 THEN 0
  ELSE IF ~safe_mul_uint64(tokens, PERCENT).is_ok
    THEN (IF clamp THEN PERCENT ELSE UINT32_MAX)
  ELSE ClampPercentage(safe_mul_uint64(tokens, PERCENT).val \div limit, clamp)

(***************************************************************************)
(* A transcript is a sequence of lines.  A line is what getline and cJSON  *)
(* make of it: its length in bytes (newline included), whether it parses,  *)
(* and the shape of the parsed value:                                      *)
(*   msg    "none" (no "message" member), "nonobj", "obj"                  *)
(*   role   "none" (no string "role"), "user", "assistant"                 *)
(*   usage  "none" (no "usage" member), "nonobj" (null, number, ...), "obj"*)
(*   the six token fields of the usage object, under both namings          *)
(***************************************************************************)
Line(len, kind, msg, role, usage, inp, out, ccr, ccl, crr, crl) ==
  [len |-> len, kind |-> kind, msg |-> msg, role |-> role, usage |-> usage,
   input_tokens |-> inp, output_tokens |-> out,
   cache_creation_input_tokens |-> ccr, cache_creation_tokens |-> ccl,
   cache_read_input_tokens |-> crr, cache_read_tokens |-> crl]

Shape(len, kind, msg, role, usage) ==
  Line(len, kind, msg, role, usage, Absent, Absent, Absent, Absent, Absent, Absent)

EmptyLine == Shape(1, "empty", "none", "none", "none")
BadLine == Shape(3, "bad", "none", "none", "none")
NoMessageLine == Shape(3, "json", "none", "none", "none")
MessageNotObjectLine == Shape(3, "json", "nonobj", "none", "none")
NoUsageLine(role) == Shape(3, "json", "obj", role, "none")
UsageNotObjectLine(role) == Shape(4, "json", "obj", role, "nonobj")
UsageLine(len, role, inp, out, ccr, ccl, crr, crl) ==
  Line(len, "json", "obj", role, "obj", inp, out, ccr, ccl, crr, crl)

\* the sum of the lines' lengths: st_size of the transcript
RECURSIVE FileSize(_)
FileSize(t) == IF t = <<>> THEN 0 ELSE Head(t).len + FileSize(Tail(t))

\* getline returns the line, and the scan skips it when len <= 1 or when
\* cJSON_ParseWithLength fails
Skipped(l) == l.len <= 1 \/ l.kind # "json"

\* the two namings of the cache fields: the raw one when the member exists
CacheCreationField(l) ==
  IF Present(l.cache_creation_input_tokens) THEN l.cache_creation_input_tokens
  ELSE l.cache_creation_tokens
CacheReadField(l) ==
  IF Present(l.cache_read_input_tokens) THEN l.cache_read_input_tokens
  ELSE l.cache_read_tokens

\* safe_add_uint64 of a converted field to its counter, or the conversion's
\* error
AddConverted(conv, cur) ==
  IF ~conv.is_ok THEN ErrU64(conv.err) ELSE safe_add_uint64(cur, conv.val)

\* one "if (x && cJSON_IsNumber(x))" block of extract_tokens_from_usage:
\* the new value of the counter cur, or the error returned
AccumulateField(f, cur) ==
  IF ~cJSON_IsNumber(f) THEN OkU64(cur)
  ELSE AddConverted(safe_double_to_uint64(f), cur)

\* the result of a scan: is_ok, the error, the counts
OkCounts(tokens) == [is_ok |-> TRUE, err |-> MCCS_OK, tokens |-> tokens]
ErrCounts(e, tokens) == [is_ok |-> FALSE, err |-> e, tokens |-> tokens]

\* tokens is updated in place: the fields added before an error stay added
StoreInput(r, tokens) ==
  IF r.is_ok THEN OkCounts([tokens EXCEPT !.input_tokens = r.val])
  ELSE ErrCounts(r.err, tokens)
StoreOutput(r, tokens) ==
  IF r.is_ok THEN OkCounts([tokens EXCEPT !.output_tokens = r.val])
  ELSE ErrCounts(r.err, tokens)
StoreCacheCreation(r, tokens) ==
  IF r.is_ok THEN OkCounts([tokens EXCEPT !.cache_creation_tokens = r.val])
  ELSE ErrCounts(r.err, tokens)
StoreCacheRead(r, tokens) ==
  IF r.is_ok THEN OkCounts([tokens EXCEPT !.cache_read_tokens = r.val])
  ELSE ErrCounts(r.err, tokens)

\* the four blocks of extract_tokens_from_usage, each run on the outcome e
\* of the blocks before it
ExtractInput(l, tokens) ==
  StoreInput(AccumulateField(l.input_tokens, tokens.input_tokens), tokens)
ExtractOutput(l, e) ==
  IF ~e.is_ok THEN e
  ELSE StoreOutput(AccumulateField(l.output_tokens, e.tokens.output_tokens), e.tokens)
ExtractCacheCreation(l, e) ==
  IF ~e.is_ok THEN e
  ELSE StoreCacheCreation(
         AccumulateField(CacheCreationField(l), e.tokens.cache_creation_tokens), e.tokens)
ExtractCacheRead(l, e) ==
  IF ~e.is_ok THEN e
  ELSE StoreCacheRead(
         AccumulateField(CacheReadField(l), e.tokens.cache_read_tokens), e.tokens)

extract_tokens_from_usage(l, tokens) ==
  IF l.usage # "obj" THEN ErrCounts(MCCS_ERR_INVALID_JSON, tokens)
  ELSE ExtractCacheRead(l, ExtractCacheCreation(l, ExtractOutput(l, ExtractInput(l, tokens))))

\* a transcript file: whether stat finds it, whether fopen succeeds, and
\* its lines
Readable(lines) == [exists |-> TRUE, readable |-> TRUE, lines |-> lines]
Protected(lines) == [exists |-> TRUE, readable |-> FALSE, lines |-> lines]
Missing == [exists |-> FALSE, readable |-> FALSE, lines |-> <<>>]

\* the while loop of parse_session_tokens over the lines not yet read; the
\* counts are a local of the function and are lost with an error
RECURSIVE SessionLoop(_, _)
SessionLine(l, rest, tokens, e) ==
  IF ~e.is_ok THEN ErrCounts(e.err, init_token_counts)
  ELSE SessionLoop(rest, e.tokens)
\* SessionLoop with a scan that gives up at a line it cannot parse
SessionLoopStrict(t, tokens) ==
  IF t = <<>> THEN OkCounts(tokens)
  ELSE IF Skipped(Head(t)) THEN ErrCounts(MCCS_ERR_INVALID_JSON, init_token_counts)
  ELSE IF Head(t).msg # "obj" THEN SessionLoop(Tail(t), tokens)
  ELSE SessionLine(Head(t), Tail(t), tokens, extract_tokens_from_usage(Head(t), tokens))

SessionLoop(t, tokens) ==
  IF t = <<>> THEN OkCounts(tokens)
  ELSE IF Skipped(Head(t)) \/ Head(t).msg # "obj" THEN SessionLoop(Tail(t), tokens)
  ELSE SessionLine(Head(t), Tail(t), tokens, extract_tokens_from_usage(Head(t), tokens))

\* the end of a session scan: tokens.total_tokens = calculate_total_tokens
WithTotal(tokens, tot) ==
  IF ~tot.is_ok THEN ErrCounts(tot.err, init_token_counts)
  ELSE OkCounts([tokens EXCEPT !.total_tokens = tot.val])

SessionTotal(r) ==
  IF ~r.is_ok THEN r ELSE WithTotal(r.tokens, calculate_total_tokens(r.tokens))

parse_session_tokens(file) ==
  IF ~file.readable THEN ErrCounts(MCCS_ERR_FILE_NOT_FOUND, init_token_counts)
  ELSE SessionTotal(SessionLoop(file.lines, init_token_counts))

\* the sum of a converted field and the context sum; a failed conversion or
\* a failed addition leaves the sum as it was
ContextAdd(sum, cur) == IF ~sum.is_ok THEN cur ELSE sum.val

\* one "if (x && cJSON_IsNumber(x))" block of the context sum
ContextAddField(f, cur) ==
  IF ~cJSON_IsNumber(f) THEN cur
  ELSE ContextAdd(AddConverted(safe_double_to_uint64(f), cur), cur)

\* input + cache creation + cache read of one usage object, as both context
\* scans compute it
ContextOfUsage(l) ==
  IF l.usage # "obj" THEN 0
  ELSE ContextAddField(CacheReadField(l),
         ContextAddField(CacheCreationField(l),
           ContextAddField(l.input_tokens, 0)))

\* IsAssistant without the comparison of the role
IsAnyMessage(l) == l.msg = "obj"

IsAssistant(l) == l.msg = "obj" /\ l.role = "assistant"

\* last_assistant_cap after an assistant line of len bytes
NewCap(len, cap) == IF len > cap THEN len + 1 ELSE cap

\* the while loop of count_context_tokens.  st.has: last_assistant_line is
\* not NULL; st.line: the line copied into it; st.cap: last_assistant_cap;
\* st.oob: the terminating byte was written one past the end of the buffer
RECURSIVE ContextLoop(_, _)
ContextLoop(t, st) ==
  IF t = <<>> THEN st
  ELSE IF Skipped(Head(t)) \/ ~IsAssistant(Head(t)) THEN ContextLoop(Tail(t), st)
  ELSE ContextLoop(Tail(t),
         [has |-> TRUE, line |-> Head(t), cap |-> NewCap(Head(t).len, st.cap),
          oob |-> st.oob \/ Head(t).len = NewCap(Head(t).len, st.cap)])

OkContext(v, oob) == [is_ok |-> TRUE, err |-> MCCS_OK, val |-> v, oob |-> oob]

\* count_context_tokens after the loop
ContextOfLast(st) == OkContext(IF st.has THEN ContextOfUsage(st.line) ELSE 0, st.oob)

\* count_context_tokens: the value, and whether the scan wrote out of bounds
count_context_tokens(file) ==
  IF ~file.readable
    THEN [is_ok |-> FALSE, err |-> MCCS_ERR_FILE_NOT_FOUND, val |-> 0, oob |-> FALSE]
  ELSE ContextOfLast(ContextLoop(file.lines,
         [has |-> FALSE, line |-> EmptyLine, cap |-> 0, oob |-> FALSE]))

\* the while loop of parse_tokens_single_pass.  acc.tokens: *session_tokens;
\* acc.last: last_assistant_input; acc.found: found_assistant
RECURSIVE SinglePassLoop(_, _, _, _)
SinglePassContext(l, wantC, acc, total_context) ==
  IF wantC /\ l.role = "assistant" /\ l.usage # "none" /\ total_context > 0
    THEN [acc EXCEPT !.last = total_context, !.found = TRUE]
    ELSE acc
SinglePassLine(l, rest, wantS, wantC, acc, e) ==
  IF ~e.is_ok
    THEN [acc EXCEPT !.is_ok = FALSE, !.err = e.err, !.tokens = e.tokens]
    ELSE SinglePassLoop(rest, wantS, wantC,
           SinglePassContext(l, wantC, [acc EXCEPT !.tokens = e.tokens],
                             ContextOfUsage(l)))
SinglePassLoop(t, wantS, wantC, acc) ==
  IF t = <<>> THEN acc
  ELSE IF Skipped(Head(t)) \/ Head(t).msg # "obj"
    THEN SinglePassLoop(Tail(t), wantS, wantC, acc)
  ELSE SinglePassLine(Head(t), Tail(t), wantS, wantC, acc,
         IF wantS /\ Head(t).usage # "none"
           THEN extract_tokens_from_usage(Head(t), acc.tokens)
           ELSE OkCounts(acc.tokens))

OkSinglePass(tokens, context) ==
  [is_ok |-> TRUE, err |-> MCCS_OK, tokens |-> tokens, context |-> context]
ErrSinglePass(e, tokens, context) ==
  [is_ok |-> FALSE, err |-> e, tokens |-> tokens, context |-> context]

\* parse_tokens_single_pass after the loop; c: *context_tokens so far
SinglePassTotal(acc, wantS, wantC, c, tot) ==
  IF wantS /\ ~tot.is_ok THEN ErrSinglePass(tot.err, acc.tokens, c)
  ELSE OkSinglePass(IF wantS THEN [acc.tokens EXCEPT !.total_tokens = tot.val]
                    ELSE acc.tokens,
                    IF wantC /\ acc.found THEN acc.last ELSE c)

SinglePassEnd(acc, wantS, wantC, c) ==
  IF ~acc.is_ok THEN ErrSinglePass(acc.err, acc.tokens, c)
  ELSE SinglePassTotal(acc, wantS, wantC, c, calculate_total_tokens(acc.tokens))

\* parse_tokens_single_pass(path, session_tokens, context_tokens): wantS and
\* wantC say which pointers are not NULL, s0 and c0 are what they point to
\* at the call.  Returns the result and the two outputs after the call.
parse_tokens_single_pass(file, wantS, wantC, s0, c0) ==
  IF ~wantS /\ ~wantC THEN OkSinglePass(s0, c0)
  ELSE IF ~file.readable THEN ErrSinglePass(MCCS_ERR_FILE_NOT_FOUND, s0, c0)
  ELSE SinglePassEnd(
         SinglePassLoop(file.lines, wantS, wantC,
           [is_ok |-> TRUE, err |-> MCCS_OK,
            tokens |-> IF wantS THEN init_token_counts ELSE s0,
            last |-> 0, found |-> FALSE]),
         wantS, wantC, IF wantC THEN 0 ELSE c0)

(***************************************************************************)
(* cache.c: the cache record and the cache file.                           *)
(* struct token_cache is written and read as one block of bytes; the model *)
(* keeps the block as the sequence of its fields, so that a file can hold  *)
(* a record, a part of a record, or parts of two records.                  *)
(***************************************************************************)
CACHE_MAGIC == "0xCCCC0002"
CACHE_MAX_AGE_S == 60
\* a NULL session_id or project_dir argument
NULL == "NULL"

TokenCache(magic, ts, sid, pdir, st, ct, size) ==
  [magic |-> magic, last_update_time |-> ts, session_id |-> sid,
   project_dir |-> pdir, session_tokens |-> st, context_tokens |-> ct,
   transcript_file_size |-> size]

\* struct token_cache cache = {0}
ZeroCache == TokenCache("0x00000000", 0, "", "", init_token_counts, init_token_counts, 0)

Serialize(c) ==
  <<c.magic, c.last_update_time, c.session_id, c.project_dir,
    c.session_tokens, c.context_tokens, c.transcript_file_size>>
Deserialize(d) == TokenCache(d[1], d[2], d[3], d[4], d[5], d[6], d[7])
\* sizeof(struct token_cache), in fields
RecordLen == Len(Serialize(ZeroCache))

AbsentFile == [exists |-> FALSE, data |-> <<>>]
FileOf(data) == [exists |-> TRUE, data |-> data]

\* fread(&cache, sizeof(cache), 1, f) on a stream opened at offset 0
fread_record(data) ==
  IF Len(data) >= RecordLen
    THEN [n |-> 1, cache |-> Deserialize(SubSeq(data, 1, RecordLen))]
    ELSE [n |-> 0, cache |-> ZeroCache]

\* write(fd, buf, len) at offset 0 of a file holding data
WriteAt0(data, buf) == buf \o SubSeq(data, Len(buf) + 1, Len(data))

OkCache(c) == [is_ok |-> TRUE, err |-> MCCS_OK, cache |-> c]
ErrCache(e) == [is_ok |-> FALSE, err |-> e, cache |-> ZeroCache]

\* CheckLoaded without the test of the age
CheckLoadedAnyAge(cache, t) ==
  IF cache.magic # CACHE_MAGIC THEN ErrCache(MCCS_ERR_INVALID_FORMAT)
  ELSE OkCache(cache)

\* load_cache after the record has been read: the magic and the age
CheckLoaded(cache, t) ==
  IF cache.magic # CACHE_MAGIC THEN ErrCache(MCCS_ERR_INVALID_FORMAT)
  ELSE IF t - cache.last_update_time > CACHE_MAX_AGE_S
    THEN ErrCache(MCCS_ERR_INVALID_FORMAT)
  ELSE OkCache(cache)

\* load_cache run without interruption on file at time t; lockOk: the
\* shared lock was acquired within the timeout
load_cache(file, t, lockOk) ==
  IF ~file.exists THEN ErrCache(MCCS_ERR_FILE_NOT_FOUND)
  ELSE IF ~lockOk THEN ErrCache(MCCS_ERR_IO_ERROR)
  ELSE LET rd == fread_record(file.data)
       IN  IF rd.n # 1 THEN ErrCache(MCCS_ERR_IO_ERROR)
           ELSE CheckLoaded(rd.cache, t)

\* save_cache run without interruption.  openOk: fopen(path, "wb") succeeds
\* (and truncates the file); lockOk: the exclusive lock was acquired;
\* written: what fwrite returns (the record fits the stream's buffer, so it
\* is 1 unless the stream has no buffer); reach: how many fields of the
\* record the flush of fclose gets into the file.
\* Returns the result and the file afterwards.
save_cache(file, cache, openOk, lockOk, written, reach) ==
  IF ~openOk
    THEN [is_ok |-> FALSE, err |-> MCCS_ERR_FILE_NOT_FOUND, file |-> file]
  ELSE IF ~lockOk
    THEN [is_ok |-> FALSE, err |-> MCCS_ERR_IO_ERROR, file |-> FileOf(<<>>)]
  ELSE IF written # 1
    THEN [is_ok |-> FALSE, err |-> MCCS_ERR_IO_ERROR, file |-> FileOf(<<>>)]
  ELSE [is_ok |-> TRUE, err |-> MCCS_OK,
        file |-> FileOf(SubSeq(Serialize(cache), 1, reach))]

\* is_cache_valid without the comparison of the project directory
is_cache_valid_any_project(cache, session_id, project_dir, t) ==
  IF cache.magic # CACHE_MAGIC THEN FALSE
  ELSE IF session_id # NULL /\ cache.session_id # session_id THEN FALSE
  ELSE IF t - cache.last_update_time > CACHE_MAX_AGE_S THEN FALSE
  ELSE TRUE

is_cache_valid(cache, session_id, project_dir, t) ==
  IF cache.magic # CACHE_MAGIC THEN FALSE
  ELSE IF session_id # NULL /\ cache.session_id # session_id THEN FALSE
  ELSE IF project_dir # NULL /\ cache.project_dir # project_dir THEN FALSE
  ELSE IF t - cache.last_update_time > CACHE_MAX_AGE_S THEN FALSE
  ELSE TRUE

\* get_file_size: 0 when stat fails
get_file_size(tr) == IF ~tr.exists THEN 0 ELSE FileSize(tr.lines)

\* should_refresh_cache without the comparison of the transcript's size
should_refresh_cache_any_size(cache, session_id, project_dir, tr, t) ==
  IF ~is_cache_valid(cache, session_id, project_dir, t) THEN TRUE
  ELSE FALSE

should_refresh_cache(cache, session_id, project_dir, tr, t) ==
  IF ~is_cache_valid(cache, session_id, project_dir, t) THEN TRUE
  ELSE IF get_file_size(tr) # cache.transcript_file_size THEN TRUE
  ELSE FALSE

(***************************************************************************)
(* main.c: mccs_process_json, the token statistics of one invocation.      *)
(***************************************************************************)
\* what the invocation holds for the renderer
Stats(st, sp, ct, cp) ==
  [session_tokens |-> st, session_tokens_parsed |-> sp,
   context_tokens |-> ct, context_tokens_parsed |-> cp]

NoStats == Stats(init_token_counts, FALSE, 0, FALSE)

\* the branch "if (needs_session_tokens && needs_context_tokens)" of the
\* miss path; r: what parse_tokens_single_pass did
SinglePassStats(r) ==
  [stats |-> Stats(r.tokens, r.is_ok, r.context, r.is_ok /\ r.context > 0),
   oob |-> FALSE]

\* the else branch of it; s and c: what parse_session_tokens and
\* count_context_tokens return when they are called
SeparateStats(needS, needC, s, c) ==
  [stats |-> Stats(IF needS /\ s.is_ok THEN s.tokens ELSE init_token_counts,
                   needS /\ s.is_ok,
                   IF needC /\ c.is_ok THEN c.val ELSE 0,
                   needC /\ c.is_ok /\ c.val > 0),
   oob |-> needC /\ c.oob]

\* the else branch of "if (cache_loaded && !needs_refresh)" up to the
\* building of the record: the Token Extractor run on the transcript.
\* oob: count_context_tokens wrote out of bounds on the way.
ExtractStats(tr, needS, needC) ==
  IF needS /\ needC
    THEN SinglePassStats(parse_tokens_single_pass(tr, TRUE, TRUE, init_token_counts, 0))
    ELSE SeparateStats(needS, needC, parse_session_tokens(tr), count_context_tokens(tr))

\* the record built on the miss path from the loaded record (or {0}); the
\* identifiers fit their buffers, so strncpy copies them whole
RefreshedCache(cache, stats, session_id, project_dir, tr, t) ==
  [cache EXCEPT
     !.magic = CACHE_MAGIC,
     !.last_update_time = t,
     !.session_id = session_id,
     !.project_dir = project_dir,
     !.session_tokens = IF stats.session_tokens_parsed THEN stats.session_tokens ELSE @,
     !.context_tokens = IF stats.context_tokens_parsed
                          THEN [init_token_counts EXCEPT !.total_tokens = stats.context_tokens]
                          ELSE @,
     !.transcript_file_size = get_file_size(tr)]

\* a hit path that takes the context size from the session total
CachedStatsOfSession(cache) ==
  Stats(cache.session_tokens, TRUE, cache.session_tokens.total_tokens,
        cache.session_tokens.total_tokens > 0)

\* the statistics taken from the loaded record on the hit path
CachedStats(cache) ==
  Stats(cache.session_tokens, TRUE, cache.context_tokens.total_tokens,
        cache.context_tokens.total_tokens > 0)

\* what the print_* calls after the token block show of the statistics: a
\* metric is shown when it is asked for and tagged as parsed
Shown(stats, needS, needC) ==
  [session |-> IF needS /\ stats.session_tokens_parsed
                 THEN <<"shown", stats.session_tokens>> ELSE <<"omitted">>,
   context |-> IF needC /\ stats.context_tokens_parsed
                 THEN <<"shown", stats.context_tokens>> ELSE <<"omitted">>]

\* the faults of one save_cache call: see save_cache
NoFault == [openOk |-> TRUE, lockOk |-> TRUE, written |-> 1, reach |-> RecordLen]

\* The inputs of one run of mccs_process_json from load_mccs_paths on, for a
\* document with a transcript path.  file: the cache file; tr: the
\* transcript; t: the clock at load_cache, t + dt at is_cache_valid and
\* after; lockOk: load_cache gets its lock; crash: the allocator aborts the
\* process after an out-of-bounds write; f: the faults of save_cache.
Args(file, tr, t, dt, session_id, project_dir, needS, needC, lockOk, crash, f) ==
  [file |-> file, tr |-> tr, t |-> t, dt |-> dt, session_id |-> session_id,
   project_dir |-> project_dir, needS |-> needS, needC |-> needC,
   lockOk |-> lockOk, crash |-> crash, f |-> f]

\* what a run did: the path taken, the statistics left for the renderer,
\* the result of load_cache, the record given to save_cache and its result,
\* and what the run returns: OK(ResultVoid, 0) unless the process was
\* aborted before it got there
Outcome(a, ran, path, crashed, stats, load, saveCalled, saved, sv) ==
  [inv  |-> [ran |-> ran, path |-> path, crashed |-> crashed, args |-> a,
             stats |-> stats, load |-> load, saveCalled |-> saveCalled,
             saved |-> saved, saveOk |-> sv.is_ok, saveErr |-> sv.err,
             result |-> IF crashed THEN "aborted" ELSE MCCS_OK],
   file |-> sv.file]

\* no save_cache call
NoSave(file) == [is_ok |-> FALSE, err |-> MCCS_OK, file |-> file]

\* a save whose failure withdraws the statistics of the run
MissSaveChecked(a, load, stats, fresh) ==
  Outcome(a, TRUE, "MISS", FALSE,
          IF save_cache(a.file, fresh, a.f.openOk, a.f.lockOk, a.f.written, a.f.reach).is_ok
            THEN stats ELSE NoStats,
          load, TRUE, fresh,
          save_cache(a.file, fresh, a.f.openOk, a.f.lockOk, a.f.written, a.f.reach))

\* the end of the miss path: the record is saved, the result ignored
MissSave(a, load, stats, fresh) ==
  Outcome(a, TRUE, "MISS", FALSE, stats, load, TRUE, fresh,
          save_cache(a.file, fresh, a.f.openOk, a.f.lockOk, a.f.written, a.f.reach))

\* a miss path that gives up when load_cache failed: no extraction, no save
MissUnlessLoadFailed(a, load, cache, ex) ==
  IF ~load.is_ok
    THEN Outcome(a, TRUE, "MISS", FALSE, NoStats, load, FALSE, ZeroCache, NoSave(a.file))
    ELSE MissSave(a, load, ex.stats,
                  RefreshedCache(cache, ex.stats, a.session_id, a.project_dir,
                                 a.tr, a.t + a.dt))

\* the miss path
Miss(a, load, cache, ex) ==
  IF ex.oob /\ a.crash
    THEN Outcome(a, TRUE, "MISS", TRUE, NoStats, load, FALSE, ZeroCache, NoSave(a.file))
    ELSE MissSave(a, load, ex.stats,
                  RefreshedCache(cache, ex.stats, a.session_id, a.project_dir,
                                 a.tr, a.t + a.dt))

\* "if (cache_loaded && !needs_refresh)"
HitOrMiss(a, load, cache) ==
  IF load.is_ok /\ ~(~load.is_ok
                     \/ should_refresh_cache(cache, a.session_id, a.project_dir,
                                             a.tr, a.t + a.dt))
    THEN Outcome(a, TRUE, "HIT", FALSE, CachedStats(cache), load, FALSE, ZeroCache,
                 NoSave(a.file))
    ELSE Miss(a, load, cache, ExtractStats(a.tr, a.needS, a.needC))

\* "struct token_cache cache = {0}; if (cache_loaded) cache = ..."
AfterLoad(a, load) == HitOrMiss(a, load, IF load.is_ok THEN load.cache ELSE ZeroCache)

\* mccs_process_json from load_mccs_paths on.  Returns what the run did and
\* the cache file afterwards.
mccs_process_json(a) ==
  IF ~(a.needS \/ a.needC)
    THEN Outcome(a, FALSE, "NONE", FALSE, NoStats, ErrCache(MCCS_OK), FALSE,
                 ZeroCache, NoSave(a.file))
    ELSE AfterLoad(a, load_cache(a.file, a.t, a.lockOk))

(***************************************************************************)
(* The variables of the specifications.                                    *)
(***************************************************************************)
parseVars == <<sessionScan, contextScan, singlePass>>
orchVars == <<cacheFile, now, ticks, inv, sameSize>>
cacheVars == <<proc, savedArgs, trip>>
vars == <<castUB, transcript, parseVars, orchVars, cacheVars, arith>>

\* mccs_process_json is not running
NoArgs ==
  Args(AbsentFile, Missing, 0, 0, "", "", FALSE, FALSE, FALSE, FALSE, NoFault)
NoInvocation ==
  [ran |-> FALSE, path |-> "IDLE", crashed |-> FALSE, args |-> NoArgs,
   stats |-> NoStats, load |-> ErrCache(MCCS_OK), saveCalled |-> FALSE,
   saved |-> ZeroCache, saveOk |-> FALSE, saveErr |-> MCCS_OK, result |-> MCCS_OK]

(***************************************************************************)
(* cache.c, step by step: the processes that run load_cache and save_cache *)
(* on one cache file.                                                      *)
(***************************************************************************)
CACHE_LOCK_TIMEOUT_MS == 2000
CACHE_LOCK_INTERVAL_MS == 50

Procs == {"p1", "p2"}

\* what an operation returned
NoReturn == [kind |-> "none", is_ok |-> FALSE, err |-> MCCS_OK, cache |-> ZeroCache]
Returned(kind, r) == [kind |-> kind, is_ok |-> r.is_ok, err |-> r.err, cache |-> r.cache]

\* A process outside load_cache and save_cache.  pc: the next statement;
\* kind: the function it is in; held: its flock on the file; waited_ms,
\* attempts, lockRes: acquire_lock_with_timeout; written: what fwrite
\* returned (1: the record is in the stream's buffer); n, rd: what fread
\* returned and read; ops: the calls it has made; ret: the last return.
IdleProc ==
  [pc |-> "idle", kind |-> "none", held |-> "none", waited_ms |-> 0, attempts |-> 0,
   lockRes |-> "none", written |-> 0, n |-> 0, rd |-> ZeroCache, ops |-> 0,
   ret |-> NoReturn]

\* a round trip through save_cache and load_cache has not been made
NoTrip ==
  [done |-> FALSE, r |-> ZeroCache, f |-> NoFault, saveOk |-> FALSE,
   saveErr |-> MCCS_OK, load |-> ErrCache(MCCS_OK)]

\* no helper has been called
NoOperands ==
  [kind |-> "none", a |-> 0, b |-> 0, tokens |-> init_token_counts, x |-> Num(0),
   clamp |-> FALSE]
NoArith == [in |-> NoOperands, op |-> "none", res |-> OkU64(0)]
ArithIdle == arith = NoArith

CacheIdle ==
  /\ proc = [p \in Procs |-> IdleProc]
  /\ savedArgs = {}
  /\ trip = NoTrip

OrchIdle ==
  /\ cacheFile = AbsentFile
  /\ now = 0
  /\ ticks = 0
  /\ inv = NoInvocation
  /\ sameSize = FALSE

(***************************************************************************)
(* SpecParse: the three scans of token_calculator.c applied to one         *)
(* transcript.                                                             *)
(***************************************************************************)

\* the values double -> uint64_t gives for 2^64 on the usual builds:
\* 0 (x86-64) and UINT64_MAX (saturating conversion, AArch64)
CastOutcomes == {0, UINT64_MAX}

\* lines whose usage holds numbers that are not token counts: a negative
\* one, an out-of-range literal that strtod turns into infinity, 2^64 (what
\* the literals 18446744073709551615 and 18446744073709551616 both parse
\* to), and the largest count a double below 2^64 holds next to another one
NegativeInputLine ==
  UsageLine(5, "assistant", Num(-1), Absent, Absent, Absent, Absent, Num(1))
InfiniteLine == UsageLine(5, "user", Absent, Absent, Inf, Absent, Absent, Absent)
TwoTo64Line ==
  UsageLine(5, "assistant", Num(DoubleOfUINT64_MAX), Absent, Absent, Absent, Absent, Absent)
LargestLine ==
  UsageLine(5, "assistant", Num(UINT64_MAX - 1), Absent, Absent, Num(2), Absent, Absent)
CorruptLines == {NegativeInputLine, InfiniteLine, TwoTo64Line, LargestLine}

ParseLines ==
  CorruptLines \cup
  { EmptyLine, BadLine, NoMessageLine, MessageNotObjectLine,
    NoUsageLine("user"), NoUsageLine("assistant"), UsageNotObjectLine("assistant"),
    UsageLine(5, "user", Num(1), Num(1), Absent, Absent, Absent, Absent),
    UsageLine(5, "assistant", Num(2), Num(1), Num(1), Absent, Absent, Num(1)),
    UsageLine(6, "assistant", Num(1), Absent, Absent, Absent, Absent, Absent),
    UsageLine(5, "none", Absent, Num(2), Absent, Absent, Absent, Absent),
    UsageLine(5, "assistant", Absent, Absent, Absent, Absent, Absent, Absent) }

SeqsUpTo(S, n) == UNION { [1..k -> S] : k \in 0..n }


ParseTranscripts == { Readable(t) : t \in SeqsUpTo(ParseLines, MaxLines) } \cup {Missing}

NoSessionScan == [done |-> FALSE, res |-> OkCounts(init_token_counts)]
NoContextScan ==
  [done |-> FALSE, crashed |-> FALSE,
   res |-> [is_ok |-> TRUE, err |-> MCCS_OK, val |-> 0, oob |-> FALSE]]
NoSinglePass ==
  [done |-> FALSE, wantS |-> FALSE, wantC |-> FALSE,
   res |-> [is_ok |-> TRUE, err |-> MCCS_OK, tokens |-> init_token_counts,
            context |-> 0]]

ParseIdle ==
  /\ sessionScan = NoSessionScan
  /\ contextScan = NoContextScan
  /\ singlePass = NoSinglePass

\* the cast's outcome matters to a transcript that holds 2^64
CastChoices(file) ==
  IF \E i \in 1..Len(file.lines) : file.lines[i] = TwoTo64Line
    THEN CastOutcomes ELSE {0}

InitParse ==
  /\ CacheIdle
  /\ ArithIdle
  /\ transcript \in ParseTranscripts
  /\ castUB \in CastChoices(transcript)
  /\ sessionScan = NoSessionScan
  /\ contextScan = NoContextScan
  /\ singlePass = NoSinglePass
  /\ OrchIdle

ParseSession ==
  /\ ~sessionScan.done
  /\ sessionScan' = [done |-> TRUE, res |-> parse_session_tokens(transcript)]
  /\ UNCHANGED <<castUB, arith, transcript, contextScan, singlePass, orchVars, cacheVars>>

\* a scan that wrote past the end of last_assistant_line either goes on
\* unharmed or is aborted by the allocator's consistency checks
CountContext ==
  /\ ~contextScan.done
  /\ LET r == count_context_tokens(transcript)
     IN  \E crashed \in (IF r.oob THEN BOOLEAN ELSE {FALSE}) :
           contextScan' = [done |-> TRUE, crashed |-> crashed, res |-> r]
  /\ UNCHANGED <<castUB, arith, transcript, sessionScan, singlePass, orchVars, cacheVars>>

SinglePass ==
  /\ ~singlePass.done
  /\ \E wantS \in BOOLEAN, wantC \in BOOLEAN :
       singlePass' =
         [done |-> TRUE, wantS |-> wantS, wantC |-> wantC,
          res |-> parse_tokens_single_pass(transcript, wantS, wantC,
                                           init_token_counts, 0)]
  /\ UNCHANGED <<castUB, arith, transcript, sessionScan, contextScan, orchVars, cacheVars>>

NextParse == ParseSession \/ CountContext \/ SinglePass


SpecParse == InitParse /\ [][NextParse]_vars

(***************************************************************************)
(* SpecOrch: invocations of mccs_process_json by one session, one after    *)
(* the other, on the session's cache file.  Between invocations the clock  *)
(* advances, the transcript changes, and a process of another session      *)
(* whose id hashes to the same file name saves its own record.  inv holds  *)
(* what an invocation did from its end until the process exits.            *)
(***************************************************************************)
\* number of times the clock advances
MaxTicks == 1
\* longest transcript (in lines) of SpecOrch
MaxOrchLines == 1

SessionId == "s1"
OtherSessionId == "s2"
ProjectDirs == {"p1", "p2"}

AssistantLine == UsageLine(5, "assistant", Num(2), Num(1), Absent, Absent, Absent, Absent)
NegativeLine == UsageLine(6, "assistant", Num(-1), Absent, Absent, Absent, Absent, Absent)
OrchLines == {AssistantLine, NegativeLine}

\* how far a failing flush gets: nowhere
ShortWrites == {0}

\* the seconds that pass between the time() of load_cache and the later ones
ClockSteps == {0, 1}

\* the clock is advanced to the last second of a record's life or past it
TickSteps == {CACHE_MAX_AGE_S, CACHE_MAX_AGE_S + 1}

\* the allocator may abort the process only after an out-of-bounds write
CrashChoices(tr, needS, needC) ==
  IF ExtractStats(tr, needS, needC).oob THEN BOOLEAN ELSE {FALSE}

\* no invocation is running
Idle == inv = NoInvocation

SaveFaults ==
  {NoFault, [NoFault EXCEPT !.openOk = FALSE], [NoFault EXCEPT !.lockOk = FALSE],
   [NoFault EXCEPT !.written = 0]}
  \cup {[NoFault EXCEPT !.reach = k] : k \in ShortWrites}

\* the faults of save_cache that an invocation can tell apart or that leave
\* different files
OrchFaults ==
  {NoFault, [NoFault EXCEPT !.openOk = FALSE], [NoFault EXCEPT !.lockOk = FALSE],
   [NoFault EXCEPT !.reach = 0]}

\* the record another session leaves in the file
OtherCache(t, size) ==
  TokenCache(CACHE_MAGIC, t, OtherSessionId, "p1", TokenCounts(1, 0, 0, 0, 1),
             [init_token_counts EXCEPT !.total_tokens = 1], size)

\* a record of an earlier format
OldFormatCache(size) ==
  TokenCache("0xCCCC0001", 0, SessionId, "p1", TokenCounts(1, 0, 0, 0, 1),
             [init_token_counts EXCEPT !.total_tokens = 1], size)

InitOrch ==
  /\ CacheIdle
  /\ ArithIdle
  /\ castUB = 0
  /\ transcript \in {Missing} \cup {Readable(t) : t \in SeqsUpTo(OrchLines, 1)}
  /\ now = 0
  /\ ticks = 0
  /\ cacheFile \in
       {AbsentFile, FileOf(<<>>),
        FileOf(SubSeq(Serialize(OtherCache(0, 0)), 1, 3)),
        FileOf(Serialize(OldFormatCache(get_file_size(transcript)))),
        FileOf(Serialize(OtherCache(0, get_file_size(transcript))))}
  /\ inv = NoInvocation
  /\ sameSize = FALSE
  /\ ParseIdle

\* The inputs of an invocation that can change what it does.  With no
\* statistic asked for nothing is read; the lock of load_cache is only
\* asked for when the file exists; a second passing between the time() of
\* load_cache and that of is_cache_valid matters in the last second of the
\* record's life.
ProjectChoices(needed) == IF needed THEN ProjectDirs ELSE {"p1"}
LockChoices(needed) == IF needed /\ cacheFile.exists THEN BOOLEAN ELSE {TRUE}
ClockChoices(needed) ==
  IF /\ needed
     /\ cacheFile.exists
     /\ fread_record(cacheFile.data).n = 1
     /\ now - fread_record(cacheFile.data).cache.last_update_time = CACHE_MAX_AGE_S
    THEN ClockSteps ELSE {0}
FaultChoices(needed) == IF needed THEN OrchFaults ELSE {NoFault}

\* one invocation of the session's status line
Invoke ==
  /\ Idle
  /\ \E needS \in BOOLEAN, needC \in BOOLEAN :
       \E pdir \in ProjectChoices(needS \/ needC),
          lockOk \in LockChoices(needS \/ needC),
          dt \in ClockChoices(needS \/ needC),
          f \in FaultChoices(needS \/ needC),
          crash \in CrashChoices(transcript, needS, needC) :
         /\ inv' = mccs_process_json(
                     Args(cacheFile, transcript, now, dt, SessionId, pdir,
                          needS, needC, lockOk, crash, f)).inv
         /\ cacheFile' = mccs_process_json(
                     Args(cacheFile, transcript, now, dt, SessionId, pdir,
                          needS, needC, lockOk, crash, f)).file
  /\ UNCHANGED <<castUB, arith, transcript, now, ticks, sameSize, parseVars, cacheVars>>

\* the process exits
Exit ==
  /\ ~Idle
  /\ inv' = NoInvocation
  /\ UNCHANGED <<castUB, arith, transcript, cacheFile, now, ticks, sameSize, parseVars, cacheVars>>

Tick ==
  /\ Idle
  /\ ticks < MaxTicks
  /\ \E d \in TickSteps : now' = now + d
  /\ ticks' = ticks + 1
  /\ UNCHANGED <<castUB, arith, transcript, cacheFile, inv, sameSize, parseVars, cacheVars>>

AppendLine ==
  /\ Idle
  /\ transcript.exists
  /\ Len(transcript.lines) < MaxOrchLines
  /\ \E l \in OrchLines :
       transcript' = [transcript EXCEPT !.lines = Append(@, l)]
  /\ UNCHANGED <<castUB, arith, cacheFile, now, ticks, inv, sameSize, parseVars, cacheVars>>

RemoveTranscript ==
  /\ Idle
  /\ transcript.exists
  /\ transcript' = Missing
  /\ sameSize' = (sameSize \/ get_file_size(transcript) = 0)
  /\ UNCHANGED <<castUB, arith, cacheFile, now, ticks, inv, parseVars, cacheVars>>

CreateTranscript ==
  /\ Idle
  /\ ~transcript.exists
  /\ transcript' = Readable(<<>>)
  /\ sameSize' = TRUE
  /\ UNCHANGED <<castUB, arith, cacheFile, now, ticks, inv, parseVars, cacheVars>>

OtherSessionSaves ==
  /\ Idle
  /\ cacheFile' = FileOf(Serialize(OtherCache(now, get_file_size(transcript))))
  /\ UNCHANGED <<castUB, arith, transcript, now, ticks, inv, sameSize, parseVars, cacheVars>>

NextOrch ==
  \/ Invoke
  \/ Exit
  \/ Tick
  \/ AppendLine
  \/ RemoveTranscript
  \/ CreateTranscript
  \/ OtherSessionSaves

SpecOrch == InitOrch /\ [][NextOrch]_vars

(***************************************************************************)
(* SpecCache: each process calls load_cache and save_cache a bounded       *)
(* number of times; a step is one system call (with the statements around  *)
(* it that touch nothing shared).  flock locks belong to the process's     *)
(* open file; the stream of save_cache is buffered, so that the record     *)
(* reaches the file when fclose flushes it.                                *)
(***************************************************************************)
\* calls of load_cache and save_cache per process
MaxOps == 1

\* the record an earlier save_cache of the session left in the file
PriorRecord ==
  TokenCache(CACHE_MAGIC, 0, SessionId, "p1", TokenCounts(3, 0, 0, 0, 3),
             [init_token_counts EXCEPT !.total_tokens = 3], 7)

\* the record process p saves
RecordOf(p) ==
  IF p = "p1"
    THEN TokenCache(CACHE_MAGIC, 0, SessionId, "p1", TokenCounts(1, 0, 0, 0, 1),
                    [init_token_counts EXCEPT !.total_tokens = 1], 5)
    ELSE TokenCache(CACHE_MAGIC, 0, SessionId, "p1", TokenCounts(2, 0, 0, 0, 2),
                    [init_token_counts EXCEPT !.total_tokens = 2], 6)

\* what fwrite of one record may return
FwriteResults == {0, 1}
\* how many fields of the record a flush that fails part-way gets out
ShortFlush == {5}
FlushReach == {RecordLen} \cup ShortFlush

\* flock(fd, operation | LOCK_NB) by p would succeed
Compatible(p, operation) ==
  \A q \in Procs \ {p} :
    /\ proc[q].held # "EX"
    /\ operation = "EX" => proc[q].held = "none"

\* the test of the timeout with > for >=
TimedOutLate(waited_ms, timeout_ms) == waited_ms > timeout_ms

\* "if (waited_ms >= timeout_ms)"
TimedOut(waited_ms, timeout_ms) == waited_ms >= timeout_ms

\* the lock operation of the function a process is in
OperationOf(kind) == IF kind = "save" THEN "EX" ELSE "SH"

\* the statement after a successful acquire_lock_with_timeout
AfterLock(kind) == IF kind = "save" THEN "fwrite" ELSE "fread"

InitCache ==
  /\ ArithIdle
  /\ castUB = 0
  /\ transcript = Missing
  /\ ParseIdle
  /\ now = 0 /\ ticks = 0 /\ inv = NoInvocation /\ sameSize = FALSE
  /\ \/ cacheFile = AbsentFile /\ savedArgs = {}
     \/ cacheFile = FileOf(Serialize(PriorRecord)) /\ savedArgs = {PriorRecord}
  /\ proc = [p \in Procs |-> IdleProc]
  /\ trip = NoTrip

\* the call enters the function; fopen is its first statement
Call(p, kind) ==
  [proc[p] EXCEPT !.pc = "fopen", !.kind = kind, !.waited_ms = 0, !.attempts = 0,
                  !.lockRes = "none", !.written = 0, !.n = 0, !.rd = ZeroCache,
                  !.ops = @ + 1, !.ret = NoReturn]

\* the function returns r; its locals are gone
Return(p, r) ==
  [proc[p] EXCEPT !.pc = "idle", !.waited_ms = 0, !.written = 0, !.n = 0,
                  !.rd = ZeroCache, !.ret = Returned(proc[p].kind, r)]

CallSave(p) ==
  /\ proc[p].pc = "idle"
  /\ proc[p].ops < MaxOps
  /\ proc' = [proc EXCEPT ![p] = Call(p, "save")]
  /\ savedArgs' = savedArgs \cup {RecordOf(p)}
  /\ UNCHANGED <<castUB, arith, transcript, parseVars, orchVars, trip>>

CallLoad(p) ==
  /\ proc[p].pc = "idle"
  /\ proc[p].ops < MaxOps
  /\ proc' = [proc EXCEPT ![p] = Call(p, "load")]
  /\ UNCHANGED <<castUB, arith, transcript, parseVars, orchVars, savedArgs, trip>>

\* save_cache: fopen(path, "wb") creates the file or truncates it
OpenForWriting(p) ==
  /\ proc[p].pc = "fopen" /\ proc[p].kind = "save"
  /\ cacheFile' = FileOf(<<>>)
  /\ proc' = [proc EXCEPT ![p].pc = "lock"]
  /\ UNCHANGED <<castUB, arith, transcript, parseVars, now, ticks, inv, sameSize, savedArgs, trip>>

\* load_cache: fopen(path, "rb")
OpenForReading(p) ==
  /\ proc[p].pc = "fopen" /\ proc[p].kind = "load"
  /\ proc' = [proc EXCEPT ![p] =
                IF cacheFile.exists THEN [proc[p] EXCEPT !.pc = "lock"]
                ELSE Return(p, ErrCache(MCCS_ERR_FILE_NOT_FOUND))]
  /\ UNCHANGED <<castUB, arith, transcript, parseVars, orchVars, savedArgs, trip>>

\* acquire_lock_with_timeout: one turn of the loop that gets the lock
LockAcquired(p) ==
  /\ proc[p].pc = "lock"
  /\ Compatible(p, OperationOf(proc[p].kind))
  /\ proc' = [proc EXCEPT ![p].held = OperationOf(proc[p].kind),
                          ![p].attempts = @ + 1,
                          ![p].lockRes = "ok",
                          ![p].pc = AfterLock(proc[p].kind)]
  /\ UNCHANGED <<castUB, arith, transcript, parseVars, orchVars, savedArgs, trip>>

\* a blocking flock: the process stays in the call until the lock is free
LockBusyBlocking(p) ==
  /\ proc[p].pc = "lock"
  /\ ~Compatible(p, OperationOf(proc[p].kind))
  /\ UNCHANGED vars

\* one turn that finds the lock taken (EWOULDBLOCK): after the timeout the
\* caller closes the stream and returns the error, before it the process
\* sleeps for the interval
LockBusy(p) ==
  /\ proc[p].pc = "lock"
  /\ ~Compatible(p, OperationOf(proc[p].kind))
  /\ proc' = [proc EXCEPT ![p] =
                IF TimedOut(proc[p].waited_ms, CACHE_LOCK_TIMEOUT_MS)
                  THEN [Return(p, ErrCache(MCCS_ERR_IO_ERROR))
                          EXCEPT !.attempts = @ + 1, !.lockRes = "timeout"]
                  ELSE [proc[p] EXCEPT !.attempts = @ + 1,
                                       !.waited_ms = @ + CACHE_LOCK_INTERVAL_MS]]
  /\ UNCHANGED <<castUB, arith, transcript, parseVars, orchVars, savedArgs, trip>>

\* one turn in which flock fails with another errno
LockError(p) ==
  /\ proc[p].pc = "lock"
  /\ proc' = [proc EXCEPT ![p] =
                [Return(p, ErrCache(MCCS_ERR_IO_ERROR))
                   EXCEPT !.attempts = @ + 1, !.lockRes = "error"]]
  /\ UNCHANGED <<castUB, arith, transcript, parseVars, orchVars, savedArgs, trip>>

\* load_cache: fread(&cache, sizeof(cache), 1, f)
Fread(p) ==
  /\ proc[p].pc = "fread"
  /\ proc' = [proc EXCEPT ![p].n = fread_record(cacheFile.data).n,
                          ![p].rd = fread_record(cacheFile.data).cache,
                          ![p].pc = "unlock"]
  /\ UNCHANGED <<castUB, arith, transcript, parseVars, orchVars, savedArgs, trip>>

\* a load_cache that returns after the fread with the shared lock still held
ReturnAfterRead(p) ==
  /\ proc[p].pc = "unlock" /\ proc[p].kind = "load"
  /\ proc' = [proc EXCEPT ![p] =
                Return(p, IF proc[p].n # 1 THEN ErrCache(MCCS_ERR_IO_ERROR)
                          ELSE CheckLoaded(proc[p].rd, now))]
  /\ UNCHANGED <<castUB, arith, transcript, parseVars, orchVars, savedArgs, trip>>

\* load_cache: flock(fd, LOCK_UN), fclose, the checks, return
UnlockAfterRead(p) ==
  /\ proc[p].pc = "unlock" /\ proc[p].kind = "load"
  /\ proc' = [proc EXCEPT ![p] =
                [Return(p, IF proc[p].n # 1 THEN ErrCache(MCCS_ERR_IO_ERROR)
                           ELSE CheckLoaded(proc[p].rd, now))
                   EXCEPT !.held = "none"]]
  /\ UNCHANGED <<castUB, arith, transcript, parseVars, orchVars, savedArgs, trip>>

\* save_cache: fwrite(cache, sizeof(*cache), 1, f) into the stream's buffer
Fwrite(p) ==
  /\ proc[p].pc = "fwrite"
  /\ \E written \in FwriteResults :
       proc' = [proc EXCEPT ![p].written = written, ![p].pc = "unlock"]
  /\ UNCHANGED <<castUB, arith, transcript, parseVars, orchVars, savedArgs, trip>>

\* save_cache: flock(fd, LOCK_UN)
UnlockAfterWrite(p) ==
  /\ proc[p].pc = "unlock" /\ proc[p].kind = "save"
  /\ proc' = [proc EXCEPT ![p].held = "none", ![p].pc = "fclose"]
  /\ UNCHANGED <<castUB, arith, transcript, parseVars, orchVars, savedArgs, trip>>

\* save_cache: fclose flushes the buffer with one write at offset 0 (its
\* result is not looked at), then "if (written != 1)" and return
Fclose(p) ==
  /\ proc[p].pc = "fclose"
  /\ \E reach \in FlushReach :
       cacheFile' = IF proc[p].written = 1
                      THEN FileOf(WriteAt0(cacheFile.data,
                                           SubSeq(Serialize(RecordOf(p)), 1, reach)))
                      ELSE cacheFile
  /\ proc' = [proc EXCEPT ![p] =
                Return(p, IF proc[p].written # 1 THEN ErrCache(MCCS_ERR_IO_ERROR)
                          ELSE OkCache(ZeroCache))]
  /\ UNCHANGED <<castUB, arith, transcript, parseVars, now, ticks, inv, sameSize, savedArgs, trip>>

NextCache ==
  \E p \in Procs :
    \/ CallSave(p)
    \/ CallLoad(p)
    \/ OpenForWriting(p)
    \/ OpenForReading(p)
    \/ LockAcquired(p)
    \/ LockBusy(p)
    \/ LockError(p)
    \/ Fread(p)
    \/ UnlockAfterRead(p)
    \/ Fwrite(p)
    \/ UnlockAfterWrite(p)
    \/ Fclose(p)

SpecCache == InitCache /\ [][NextCache]_vars

\* The steps process p makes by itself once it is inside load_cache or
\* save_cache: every statement but a flock that fails with an unexpected
\* errno, which is the system's choice.
OwnSteps(p) ==
  \/ OpenForWriting(p)
  \/ OpenForReading(p)
  \/ LockAcquired(p)
  \/ LockBusy(p)
  \/ Fread(p)
  \/ UnlockAfterRead(p)
  \/ Fwrite(p)
  \/ UnlockAfterWrite(p)
  \/ Fclose(p)

\* the process whose calls are followed
Observed == "p1"

\* SpecCache in which the observed process keeps being scheduled: its next
\* statement is executed eventually (nanosleep returns, the system calls
\* return).  Nothing is assumed of the other process, which may stop for
\* ever at any statement, also between its flock and its unlock.
SpecCacheFair == SpecCache /\ WF_vars(OwnSteps(Observed))

(***************************************************************************)
(* SpecTrip: save_cache(r) and then load_cache by the same process, with   *)
(* no other process at the file.                                           *)
(***************************************************************************)
\* the records with the current magic and the current timestamp
TripRecords ==
  { TokenCache(CACHE_MAGIC, now, sid, pdir, st,
               [init_token_counts EXCEPT !.total_tokens = ct], size) :
      sid \in {SessionId, ""}, pdir \in ProjectDirs,
      st \in {init_token_counts, TokenCounts(1, 2, 3, 1, 7)},
      ct \in {0, UINT64_MAX}, size \in {0, 5} }

InitTrip ==
  /\ ArithIdle
  /\ castUB = 0
  /\ transcript = Missing
  /\ ParseIdle
  /\ now \in {0, CACHE_MAX_AGE_S + 1}
  /\ ticks = 0 /\ inv = NoInvocation /\ sameSize = FALSE
  /\ cacheFile \in {AbsentFile, FileOf(<<>>),
                    FileOf(Serialize(OtherCache(0, 0))),
                    FileOf(Serialize(OldFormatCache(0)))}
  /\ proc = [p \in Procs |-> IdleProc]
  /\ savedArgs = {}
  /\ trip = NoTrip

SaveThenLoad ==
  /\ ~trip.done
  /\ \E r \in TripRecords, f \in SaveFaults, dt \in ClockSteps :
       /\ cacheFile' = save_cache(cacheFile, r, f.openOk, f.lockOk, f.written, f.reach).file
       /\ trip' = [done |-> TRUE, r |-> r, f |-> f,
                   saveOk |-> save_cache(cacheFile, r, f.openOk, f.lockOk,
                                         f.written, f.reach).is_ok,
                   saveErr |-> save_cache(cacheFile, r, f.openOk, f.lockOk,
                                          f.written, f.reach).err,
                   load |-> load_cache(
                              save_cache(cacheFile, r, f.openOk, f.lockOk,
                                         f.written, f.reach).file,
                              now + dt, TRUE)]
  /\ UNCHANGED <<castUB, arith, transcript, parseVars, now, ticks, inv, sameSize, proc, savedArgs>>

\* the process exits
TripOver ==
  /\ trip.done
  /\ trip' = NoTrip
  /\ UNCHANGED <<castUB, arith, transcript, parseVars, orchVars, proc, savedArgs>>

NextTrip == SaveThenLoad \/ TripOver

SpecTrip == InitTrip /\ [][NextTrip]_vars

(***************************************************************************)
(* SpecArith: one call of a helper of safe_conv.c or of                    *)
(* calculate_total_tokens on operands drawn from the whole (scaled) range  *)
(* of its parameters.                                                      *)
(***************************************************************************)
\* the doubles of the model, in halves: from -1 to 2^64 + 1, without those
\* strictly between UINT64_MAX - 1 and 2^64
DoubleHalves ==
  {h \in -2..(2 * DoubleOfUINT64_MAX + 2) :
     h <= 2 * (UINT64_MAX - 1) \/ h >= 2 * DoubleOfUINT64_MAX}
Doubles == {[t |-> "num", h |-> h] : h \in DoubleHalves} \cup {Inf, MinusInf, NaN}

Pair64(a, b) == [NoOperands EXCEPT !.kind = "pair64", !.a = a, !.b = b]
Pair32(a, b) == [NoOperands EXCEPT !.kind = "pair32", !.a = a, !.b = b]
Counts(tokens) == [NoOperands EXCEPT !.kind = "counts", !.tokens = tokens]
Double(x) == [NoOperands EXCEPT !.kind = "double", !.x = x]
Percentage(tokens, limit, clamp) ==
  [NoOperands EXCEPT !.kind = "percentage", !.a = tokens, !.b = limit, !.clamp = clamp]

Operands ==
  {Pair64(a, b) : a \in 0..UINT64_MAX, b \in 0..UINT64_MAX}
  \cup {Pair32(a, b) : a \in 0..UINT32_MAX, b \in 0..UINT32_MAX}
  \cup {Counts(TokenCounts(i, o, cc, cr, 0)) :
          i \in 0..UINT64_MAX, o \in 0..UINT64_MAX,
          cc \in 0..UINT64_MAX, cr \in 0..UINT64_MAX}
  \cup {Double(x) : x \in Doubles}
  \cup {Percentage(tokens, limit, clamp) :
          tokens \in 0..UINT64_MAX, limit \in 0..UINT64_MAX, clamp \in BOOLEAN}

InitArith ==
  /\ CacheIdle
  /\ OrchIdle
  /\ ParseIdle
  /\ transcript = Missing
  /\ castUB \in CastOutcomes
  /\ arith \in {[NoArith EXCEPT !.in = in] : in \in Operands}

\* the call op of a helper returned res
Called(op, res) ==
  /\ arith.op = "none"
  /\ arith' = [arith EXCEPT !.op = op, !.res = res]
  /\ UNCHANGED <<castUB, transcript, parseVars, orchVars, cacheVars>>

AddU64 ==
  /\ arith.in.kind = "pair64"
  /\ Called("safe_add_uint64", safe_add_uint64(arith.in.a, arith.in.b))

MulU64 ==
  /\ arith.in.kind = "pair64"
  /\ Called("safe_mul_uint64", safe_mul_uint64(arith.in.a, arith.in.b))

AddU32 ==
  /\ arith.in.kind = "pair32"
  /\ Called("safe_add_uint32", safe_add_uint32(arith.in.a, arith.in.b))

CalculateTotal ==
  /\ arith.in.kind = "counts"
  /\ Called("calculate_total_tokens", calculate_total_tokens(arith.in.tokens))

DoubleToU64 ==
  /\ arith.in.kind = "double"
  /\ Called("safe_double_to_uint64", safe_double_to_uint64(arith.in.x))

DoubleToU32 ==
  /\ arith.in.kind = "double"
  /\ Called("safe_double_to_uint32", safe_double_to_uint32(arith.in.x))

\* the uint32_t returned is kept in the val of a result
CalculatePercentage ==
  /\ arith.in.kind = "percentage"
  /\ Called("calculate_percentage",
            OkU32(calculate_percentage(arith.in.a, arith.in.b, arith.in.clamp)))

NextArith ==
  \/ AddU64
  \/ MulU64
  \/ AddU32
  \/ CalculateTotal
  \/ DoubleToU64
  \/ DoubleToU32
  \/ CalculatePercentage

SpecArith == InitArith /\ [][NextArith]_vars

(***************************************************************************)
(* Properties of the scans                                                 *)
(***************************************************************************)
RemoveAt(t, i) == [k \in 1..(Len(t) - 1) |-> IF k < i THEN t[k] ELSE t[k + 1]]

\* valid JSON without the expected shape: no message object, or a message
\* object without a usage object
LacksShape(l) == ~Skipped(l) /\ (l.msg # "obj" \/ l.usage # "obj")

\* C9 -- single-pass equivalence: parse_tokens_single_pass(path, &s, &c)
\* succeeds exactly when parse_session_tokens(path) and
\* count_context_tokens(path) both succeed, and then s and c are the values
\* the two scans return.
C9_SinglePassEquivalence ==
  (/\ sessionScan.done
   /\ contextScan.done /\ ~contextScan.crashed
   /\ singlePass.done /\ singlePass.wantS /\ singlePass.wantC)
  => /\ singlePass.res.is_ok <=> (sessionScan.res.is_ok /\ contextScan.res.is_ok)
     /\ singlePass.res.is_ok =>
          /\ singlePass.res.tokens = sessionScan.res.tokens
          /\ singlePass.res.context = contextScan.res.val

\* C10 -- shape tolerance: a line that is valid JSON but lacks the expected
\* shape is skipped by session-total extraction in parse_session_tokens and
\* in parse_tokens_single_pass: the result is that of the transcript with
\* the line removed.
C10_ShapeTolerance ==
  \A i \in 1..Len(transcript.lines) :
    LacksShape(transcript.lines[i]) =>
      LET without == Readable(RemoveAt(transcript.lines, i))
      IN  /\ sessionScan.done =>
               sessionScan.res = parse_session_tokens(without)
          /\ (singlePass.done /\ singlePass.wantS) =>
               LET r == parse_tokens_single_pass(without, TRUE, singlePass.wantC,
                                                 init_token_counts, 0)
               IN  /\ singlePass.res.is_ok = r.is_ok
                   /\ singlePass.res.is_ok => singlePass.res.tokens = r.tokens

\* the session part of a single pass: the status and the counts
SessionPart(r) == [is_ok |-> r.is_ok, err |-> r.err, tokens |-> r.tokens]

\* C11 -- tolerant scanning: a line that is empty or that the JSON parser
\* rejects, at any position of the transcript, does not change the result
\* of session-total extraction (parse_session_tokens, and the session
\* output of parse_tokens_single_pass): status, error, the four counters
\* and the total are those of the transcript without the line.
C11_TolerantScanning ==
  \A i \in 1..Len(transcript.lines) :
    Skipped(transcript.lines[i]) =>
      /\ sessionScan.done =>
           sessionScan.res = parse_session_tokens(Readable(RemoveAt(transcript.lines, i)))
      /\ (singlePass.done /\ singlePass.wantS) =>
           SessionPart(singlePass.res)
             = SessionPart(parse_tokens_single_pass(
                             Readable(RemoveAt(transcript.lines, i)), TRUE,
                             singlePass.wantC, init_token_counts, 0))

\* a line that does not parse stood between two lines with usage, and the
\* scan returned the sums of the two
C11_Witness ==
  /\ sessionScan.done
  /\ Len(transcript.lines) = 3
  /\ transcript.lines[2] = BadLine
  /\ transcript.lines[1].usage = "obj" /\ transcript.lines[3].usage = "obj"
  /\ sessionScan.res.is_ok
  /\ sessionScan.res.tokens.input_tokens = 3
  /\ sessionScan.res.tokens.total_tokens = 7

\* a number that is no 64-bit token count: negative, not finite, or above
\* 2^64-1
OutOfRange(f) == f.t = "inf" \/ f.h < 0 \/ f.h > 2 * UINT64_MAX

\* the four token-count fields of a usage object, in the order of the
\* counters: input, output, cache creation, cache read
UsageFields(l) ==
  <<l.input_tokens, l.output_tokens, CacheCreationField(l), CacheReadField(l)>>

\* a line that carries a message.usage object
CarriesUsage(l) == ~Skipped(l) /\ l.msg = "obj" /\ l.usage = "obj"

\* every message of the transcript has a usage object
AllMessagesHaveUsage(t) ==
  \A i \in 1..Len(t) : (~Skipped(t[i]) /\ t[i].msg = "obj") => t[i].usage = "obj"

\* The first fault met when the fields of the usage objects are added, in
\* file order, to four counters that do not wrap: "invalid-conversion" at a
\* number out of range, "overflow" at a sum above 2^64-1, "none" when the
\* end is reached.  k: the next field of the first line; sums: the counters
RECURSIVE FirstFault(_, _, _)
FirstFault(t, k, sums) ==
  IF t = <<>> THEN MCCS_OK
  ELSE IF k > 4 \/ ~CarriesUsage(Head(t)) THEN FirstFault(Tail(t), 1, sums)
  ELSE IF ~cJSON_IsNumber(UsageFields(Head(t))[k]) THEN FirstFault(t, k + 1, sums)
  ELSE IF OutOfRange(UsageFields(Head(t))[k]) THEN MCCS_ERR_INVALID_CONVERSION
  ELSE IF sums[k] + UsageFields(Head(t))[k].h \div 2 > UINT64_MAX THEN MCCS_ERR_OVERFLOW
  ELSE FirstFault(t, k + 1,
                  [sums EXCEPT ![k] = @ + UsageFields(Head(t))[k].h \div 2])

\* C12 -- corrupt numbers abort session extraction: on a transcript whose
\* messages all have a usage object, when the first fault of the usage
\* fields is a number that is negative, not finite or above 2^64-1,
\* parse_session_tokens and the session output of parse_tokens_single_pass
\* return invalid-conversion; when it is a counter that would exceed
\* 2^64-1 they return overflow; in both cases the call is not a success.
C12_CorruptNumbersAbort ==
  (transcript.readable /\ AllMessagesHaveUsage(transcript.lines))
  => LET fault == FirstFault(transcript.lines, 1, <<0, 0, 0, 0>>)
     IN  fault # MCCS_OK =>
           /\ sessionScan.done =>
                ~sessionScan.res.is_ok /\ sessionScan.res.err = fault
           /\ (singlePass.done /\ singlePass.wantS) =>
                ~singlePass.res.is_ok /\ singlePass.res.err = fault

\* an assistant line whose usage is present
AssistantUsage(l) == CarriesUsage(l) /\ l.role = "assistant"

\* the position of the last such line of t, 0 when there is none
RECURSIVE LastAssistantUsage(_, _)
LastAssistantUsage(t, n) ==
  IF n = 0 THEN 0
  ELSE IF AssistantUsage(t[n]) THEN n
  ELSE LastAssistantUsage(t, n - 1)

\* the three fields of a usage object that make the context size
ContextFields(l) == <<l.input_tokens, CacheCreationField(l), CacheReadField(l)>>

\* the token count a field stands for: 0 when it is absent or no number
CountOf(f) == IF cJSON_IsNumber(f) /\ f.t = "num" THEN f.h \div 2 ELSE 0

\* input + cache creation + cache read of a usage object, not wrapped
TrueContext(l) ==
  CountOf(ContextFields(l)[1]) + CountOf(ContextFields(l)[2]) + CountOf(ContextFields(l)[3])

\* the three fields are in range and their sum fits 64 bits
ContextInRange(l) ==
  /\ \A k \in 1..3 : cJSON_IsNumber(ContextFields(l)[k]) => ~OutOfRange(ContextFields(l)[k])
  /\ TrueContext(l) <= UINT64_MAX

\* the last assistant line with usage of the transcript
LastUsageLine == transcript.lines[LastAssistantUsage(transcript.lines, Len(transcript.lines))]

\* C13 -- last-assistant rule: on a transcript with an assistant line whose
\* usage is present, count_context_tokens and the context output of
\* parse_tokens_single_pass give input + cache creation + cache read of
\* the last such line (its fields being in range), whatever the earlier
\* assistant lines hold and whatever lines follow it.
C13_LastAssistantRule ==
  (/\ transcript.readable
   /\ LastAssistantUsage(transcript.lines, Len(transcript.lines)) > 0
   /\ ContextInRange(LastUsageLine))
  => /\ (contextScan.done /\ ~contextScan.crashed) =>
          /\ contextScan.res.is_ok
          /\ contextScan.res.val = TrueContext(LastUsageLine)
     /\ (singlePass.done /\ singlePass.wantC /\ singlePass.res.is_ok) =>
          singlePass.res.context = TrueContext(LastUsageLine)

\* the positions of the assistant lines of the transcript
AssistantPositions ==
  {i \in 1..Len(transcript.lines) :
     ~Skipped(transcript.lines[i]) /\ IsAssistant(transcript.lines[i])}

\* the checked sum of the three context fields of a usage object
CheckedContext(l) ==
  IF \E k \in 1..3 : cJSON_IsNumber(ContextFields(l)[k]) /\ OutOfRange(ContextFields(l)[k])
    THEN ErrU64(MCCS_ERR_INVALID_CONVERSION)
  ELSE IF TrueContext(l) > UINT64_MAX THEN ErrU64(MCCS_ERR_OVERFLOW)
  ELSE OkU64(TrueContext(l))

\* status, error and value of a call of count_context_tokens
ContextPart(r) == [is_ok |-> r.is_ok, err |-> r.err, val |-> IF r.is_ok THEN r.val ELSE 0]

\* status, error and context output of a single pass
SinglePassContextPart(r) ==
  [is_ok |-> r.is_ok, err |-> r.err, val |-> IF r.is_ok THEN r.context ELSE 0]

\* C14 -- context size is a checked sum: on a transcript whose only
\* assistant line has a usage object, count_context_tokens and the context
\* output of parse_tokens_single_pass return the exact sum of the usage's
\* input, cache-creation and cache-read fields, or invalid-conversion when
\* one of them is out of range, or overflow when the sum exceeds 2^64-1.
C14_CheckedContextSum ==
  (transcript.readable /\ Cardinality(AssistantPositions) = 1)
  => \A i \in AssistantPositions :
       AssistantUsage(transcript.lines[i]) =>
         /\ (contextScan.done /\ ~contextScan.crashed) =>
              ContextPart(contextScan.res) = CheckedContext(transcript.lines[i])
         /\ (singlePass.done /\ singlePass.wantC /\ ~singlePass.wantS) =>
              SinglePassContextPart(singlePass.res) = CheckedContext(transcript.lines[i])

\* the sum of field k over the lines of t that carry a usage object
RECURSIVE FieldSum(_, _)
FieldSum(t, k) ==
  IF t = <<>> THEN 0
  ELSE (IF CarriesUsage(Head(t)) THEN CountOf(UsageFields(Head(t))[k]) ELSE 0)
       + FieldSum(Tail(t), k)

\* the four sums and their sum
TrueTotals(t) ==
  TokenCounts(FieldSum(t, 1), FieldSum(t, 2), FieldSum(t, 3), FieldSum(t, 4),
              FieldSum(t, 1) + FieldSum(t, 2) + FieldSum(t, 3) + FieldSum(t, 4))

\* the numeric fields of the usage objects are in range and the sums fit
TotalsInRange(t) ==
  /\ \A i \in 1..Len(t) : CarriesUsage(t[i]) =>
        \A k \in 1..4 : cJSON_IsNumber(UsageFields(t[i])[k]) => ~OutOfRange(UsageFields(t[i])[k])
  /\ TrueTotals(t).total_tokens <= UINT64_MAX

\* C15 -- session totals: on a readable transcript whose numeric fields
\* are in range and whose sums fit 64 bits, parse_session_tokens and the
\* session output of parse_tokens_single_pass return success with, for
\* each of the four counters, the sum of the field over the lines that
\* carry a message.usage object (whatever the role, under either naming of
\* the cache fields), and with their sum as the total; all zeros on an
\* empty transcript.
C15_SessionTotals ==
  (transcript.readable /\ TotalsInRange(transcript.lines))
  => /\ sessionScan.done =>
          sessionScan.res = OkCounts(TrueTotals(transcript.lines))
     /\ (singlePass.done /\ singlePass.wantS) =>
          SessionPart(singlePass.res) = OkCounts(TrueTotals(transcript.lines))

\* no line of t has a message.role equal to "assistant"
NoAssistantRole(t) == \A i \in 1..Len(t) : t[i].role # "assistant"

\* C16 -- no assistant, no error: on a readable transcript without a line
\* whose message.role is "assistant", count_context_tokens returns success
\* with 0; parse_tokens_single_pass leaves 0 in its context output, returns
\* success when only the context is asked for, and when the session totals
\* are asked for too returns what the session part alone returns.
C16_NoAssistantNoError ==
  (transcript.readable /\ NoAssistantRole(transcript.lines))
  => /\ contextScan.done =>
          /\ ~contextScan.crashed
          /\ contextScan.res.is_ok
          /\ contextScan.res.val = 0
     /\ (singlePass.done /\ singlePass.wantC) =>
          /\ singlePass.res.context = 0
          /\ ~singlePass.wantS => singlePass.res.is_ok
          /\ singlePass.wantS =>
               SessionPart(singlePass.res)
                 = SessionPart(parse_tokens_single_pass(transcript, TRUE, FALSE,
                                                       init_token_counts, 0))

\* a transcript of three lines, two of them user lines with token counts
\* and none of an assistant, was scanned for its context size
C16_Witness ==
  /\ contextScan.done
  /\ transcript.readable
  /\ Len(transcript.lines) = 3
  /\ NoAssistantRole(transcript.lines)
  /\ transcript.lines[1].role = "user" /\ CountOf(transcript.lines[1].input_tokens) > 0
  /\ transcript.lines[3].role = "user" /\ CountOf(transcript.lines[3].input_tokens) > 0
  /\ contextScan.res.is_ok
  /\ contextScan.res.val = 0
  /\ singlePass.done /\ singlePass.wantC /\ singlePass.res.context = 0

(***************************************************************************)
(* Properties of the invocations (SpecOrch)                                *)
(***************************************************************************)
\* the cache file given to the invocation held a whole record
HadRecord == inv.args.file.exists /\ fread_record(inv.args.file.data).n = 1
\* that record
OldRecord == fread_record(inv.args.file.data).cache
\* the record's age at the time() of load_cache and at that of is_cache_valid
AgeAtLoad == inv.args.t - OldRecord.last_update_time
AgeAtValid == inv.args.t + inv.args.dt - OldRecord.last_update_time
\* the transcript's size on disk at the invocation
CurrentSize == get_file_size(inv.args.tr)

\* C1 -- cache transparency: in any sequence of invocations of one session
\* in which every change of the transcript changed its size, what an
\* invocation shows of the session totals and of the context size (value
\* and parsed flag) is what the Token Extractor run on the current
\* transcript would give.
C1_CacheTransparency ==
  (inv.ran /\ ~inv.crashed /\ ~sameSize)
  => Shown(inv.stats, inv.args.needS, inv.args.needC)
       = Shown(ExtractStats(inv.args.tr, inv.args.needS, inv.args.needC).stats,
               inv.args.needS, inv.args.needC)

\* C5 as stated -- staleness: with a cached record of size S whose age is
\* within the threshold, the invocation takes MISS when the transcript's
\* size differs from S and HIT when it equals S.
C5_Staleness ==
  (inv.ran /\ HadRecord /\ AgeAtLoad <= CACHE_MAX_AGE_S /\ AgeAtValid <= CACHE_MAX_AGE_S)
  => /\ CurrentSize # OldRecord.transcript_file_size => inv.path = "MISS"
     /\ CurrentSize = OldRecord.transcript_file_size => inv.path = "HIT"

\* C5 -- staleness: with a cached record of size S whose age is within the
\* threshold, the invocation takes MISS when the transcript's size differs
\* from S; it takes HIT when the size equals S, load_cache got its lock,
\* and the record has the current magic and the caller's session id and
\* project directory.
C5_StalenessOfOwnRecord ==
  (inv.ran /\ HadRecord /\ AgeAtLoad <= CACHE_MAX_AGE_S /\ AgeAtValid <= CACHE_MAX_AGE_S)
  => /\ CurrentSize # OldRecord.transcript_file_size => inv.path = "MISS"
     /\ (/\ CurrentSize = OldRecord.transcript_file_size
         /\ inv.args.lockOk
         /\ OldRecord.magic = CACHE_MAGIC
         /\ OldRecord.session_id = inv.args.session_id
         /\ OldRecord.project_dir = inv.args.project_dir)
        => inv.path = "HIT"

\* an invocation found its own unexpired record with the size unchanged
\* and took the hit path
C5_Witness ==
  /\ inv.ran /\ HadRecord /\ inv.args.lockOk
  /\ AgeAtLoad <= CACHE_MAX_AGE_S /\ AgeAtValid <= CACHE_MAX_AGE_S
  /\ OldRecord.magic = CACHE_MAGIC
  /\ OldRecord.session_id = inv.args.session_id
  /\ OldRecord.project_dir = inv.args.project_dir
  /\ CurrentSize = OldRecord.transcript_file_size
  /\ CurrentSize > 0
  /\ inv.path = "HIT"

\* the identifiers a caller may pass to is_cache_valid
SessionIdArgs == {NULL, "", SessionId, OtherSessionId}
ProjectDirArgs == {NULL, ""} \cup ProjectDirs

\* the cache file holds a whole record (looked at between invocations)
HasRecord == cacheFile.exists /\ fread_record(cacheFile.data).n = 1
FileRecord == fread_record(cacheFile.data).cache

\* C6 -- expiry: a record older than CACHE_MAX_AGE_S never yields a HIT:
\* load_cache returns invalid-format for it and is_cache_valid is false
\* for it whatever the identifiers and the transcript's size; a record of
\* age at most CACHE_MAX_AGE_S is not rejected for its age.
C6_Expiry ==
  /\ (Idle /\ HasRecord) =>
       \A sid \in SessionIdArgs, pdir \in ProjectDirArgs :
         /\ now - FileRecord.last_update_time > CACHE_MAX_AGE_S
              => /\ ~is_cache_valid(FileRecord, sid, pdir, now)
                 /\ load_cache(cacheFile, now, TRUE).err = MCCS_ERR_INVALID_FORMAT
         /\ (/\ now - FileRecord.last_update_time <= CACHE_MAX_AGE_S
             /\ FileRecord.magic = CACHE_MAGIC)
              => /\ load_cache(cacheFile, now, TRUE).is_ok
                 /\ (/\ sid \in {NULL, FileRecord.session_id}
                     /\ pdir \in {NULL, FileRecord.project_dir})
                      => is_cache_valid(FileRecord, sid, pdir, now)
  /\ (inv.ran /\ HadRecord /\ inv.args.lockOk) =>
       /\ AgeAtLoad > CACHE_MAX_AGE_S
            => /\ ~inv.load.is_ok
               /\ inv.load.err = MCCS_ERR_INVALID_FORMAT
               /\ inv.path = "MISS"
       /\ AgeAtValid > CACHE_MAX_AGE_S => inv.path = "MISS"
       /\ (AgeAtLoad <= CACHE_MAX_AGE_S /\ OldRecord.magic = CACHE_MAGIC)
            => inv.load.is_ok

\* an invocation found its own record, size unchanged, one second too old
C6_Witness ==
  /\ inv.ran /\ HadRecord /\ inv.args.lockOk
  /\ OldRecord.magic = CACHE_MAGIC
  /\ OldRecord.session_id = inv.args.session_id
  /\ OldRecord.project_dir = inv.args.project_dir
  /\ CurrentSize = OldRecord.transcript_file_size
  /\ AgeAtLoad = CACHE_MAX_AGE_S + 1
  /\ inv.load.err = MCCS_ERR_INVALID_FORMAT
  /\ inv.path = "MISS"

\* the condition of validity, as a predicate of the record
ValidFor(cache, sid, pdir, t) ==
  /\ cache.magic = CACHE_MAGIC
  /\ sid # NULL => cache.session_id = sid
  /\ pdir # NULL => cache.project_dir = pdir
  /\ t - cache.last_update_time <= CACHE_MAX_AGE_S

\* C7 -- identity validity: is_cache_valid(record, sid, pdir) is true
\* exactly when the magic is CACHE_MAGIC, sid (if supplied) is the stored
\* session id, pdir (if supplied) is the stored project directory and the
\* age is within the maximum; an invocation reaches HIT only with a record
\* that stores its session id and project directory, and a record of
\* another session or project under the same key yields MISS.
C7_IdentityValidity ==
  /\ (Idle /\ HasRecord) =>
       \A sid \in SessionIdArgs, pdir \in ProjectDirArgs :
         is_cache_valid(FileRecord, sid, pdir, now) <=> ValidFor(FileRecord, sid, pdir, now)
  /\ inv.path = "HIT" =>
       /\ inv.load.is_ok
       /\ inv.load.cache.session_id = inv.args.session_id
       /\ inv.load.cache.project_dir = inv.args.project_dir
  /\ (/\ inv.ran /\ HadRecord
      /\ \/ OldRecord.session_id # inv.args.session_id
         \/ OldRecord.project_dir # inv.args.project_dir)
     => inv.path = "MISS"

\* an invocation found the unexpired record its session saved for another
\* project, size unchanged, and took the miss path
C7_Witness ==
  /\ inv.ran /\ HadRecord /\ inv.args.lockOk
  /\ inv.load.is_ok
  /\ AgeAtValid <= CACHE_MAX_AGE_S
  /\ OldRecord.session_id = inv.args.session_id
  /\ OldRecord.project_dir # inv.args.project_dir
  /\ CurrentSize = OldRecord.transcript_file_size
  /\ inv.path = "MISS"

(***************************************************************************)
(* Properties of load_cache and save_cache (SpecCache, SpecTrip)           *)
(***************************************************************************)
\* no process is inside save_cache
NoSaveRunning == \A p \in Procs : ~(proc[p].kind = "save" /\ proc[p].pc # "idle")

\* C2 -- no torn record: every load_cache that returns success returns the
\* argument of one save_cache call, and once all saves have finished the
\* file holds one complete record, the argument of a save_cache call.
C2_NoTornRecord ==
  /\ \A p \in Procs :
       (proc[p].ret.kind = "load" /\ proc[p].ret.is_ok) => proc[p].ret.cache \in savedArgs
  /\ (savedArgs # {} /\ NoSaveRunning) =>
       \E r \in savedArgs : cacheFile = FileOf(Serialize(r))

\* the step is one of process p
StepOf(p) == proc'[p] # proc[p]

\* C3 -- lock discipline: every step of save_cache that changes the file
\* (the truncation of fopen, the write that brings the record's bytes into
\* the file) is made by a process that holds the exclusive lock, and every
\* fread of load_cache by a process that holds the shared lock.
C3_LockDiscipline ==
  [][\A p \in Procs :
       /\ (StepOf(p) /\ cacheFile' # cacheFile) => proc[p].held = "EX"
       /\ (StepOf(p) /\ proc[p].pc = "fread") => proc[p].held = "SH"]_vars

\* the most turns of the loop: waited_ms = 0, 50, ..., 2000
MaxAttempts == CACHE_LOCK_TIMEOUT_MS \div CACHE_LOCK_INTERVAL_MS + 1

\* C4 -- bounded lock wait: acquire_lock_with_timeout makes at most 41
\* non-blocking attempts; the attempt that obtains the lock returns
\* success at once; an attempt that fails when the waited time has reached
\* the timeout returns io-error, and load_cache and save_cache return that
\* error to their caller, holding nothing.
C4_BoundedLockWait ==
  /\ [](\A p \in Procs :
          /\ proc[p].attempts <= MaxAttempts
          /\ proc[p].pc = "lock" =>
               /\ proc[p].waited_ms = proc[p].attempts * CACHE_LOCK_INTERVAL_MS
               /\ proc[p].waited_ms <= CACHE_LOCK_TIMEOUT_MS
          /\ proc[p].held # "none" => proc[p].lockRes = "ok"
          /\ proc[p].lockRes = "timeout" => proc[p].attempts = MaxAttempts
          /\ proc[p].lockRes \in {"timeout", "error"} =>
               /\ proc[p].pc = "idle"
               /\ proc[p].held = "none"
               /\ ~proc[p].ret.is_ok
               /\ proc[p].ret.err = MCCS_ERR_IO_ERROR)
  /\ [][\A p \in Procs :
          (StepOf(p) /\ proc[p].pc = "lock") =>
            /\ proc'[p].attempts = proc[p].attempts + 1
            /\ Compatible(p, OperationOf(proc[p].kind)) =>
                 proc'[p].lockRes \in {"ok", "error"}
            /\ proc'[p].lockRes = "ok" =>
                 /\ proc'[p].held = OperationOf(proc[p].kind)
                 /\ proc'[p].pc = AfterLock(proc[p].kind)
            /\ (/\ ~Compatible(p, OperationOf(proc[p].kind))
                /\ proc[p].waited_ms >= CACHE_LOCK_TIMEOUT_MS) =>
                 proc'[p].lockRes \in {"timeout", "error"}
            /\ proc'[p].lockRes = "none" =>
                 /\ proc[p].waited_ms < CACHE_LOCK_TIMEOUT_MS
                 /\ proc'[p].waited_ms = proc[p].waited_ms + CACHE_LOCK_INTERVAL_MS
                 /\ proc'[p].pc = "lock"]_vars

\* a save_cache gave up after 41 attempts and returned io-error while the
\* other process still held its lock
C4_Witness ==
  \E p \in Procs :
    /\ proc[p].kind = "save"
    /\ proc[p].lockRes = "timeout"
    /\ proc[p].attempts = 41
    /\ proc[p].ret.err = MCCS_ERR_IO_ERROR
    /\ \E q \in Procs \ {p} : proc[q].held # "none"

\* C8 -- round trip: a save_cache(r) that returns success, followed at once
\* by load_cache in the same process with no other process at the file,
\* gives success and a record with r's counters, session id, project
\* directory and transcript size.
C8_RoundTrip ==
  (trip.done /\ trip.saveOk)
  => /\ trip.load.is_ok
     /\ trip.load.cache.session_tokens = trip.r.session_tokens
     /\ trip.load.cache.context_tokens = trip.r.context_tokens
     /\ trip.load.cache.session_id = trip.r.session_id
     /\ trip.load.cache.project_dir = trip.r.project_dir
     /\ trip.load.cache.transcript_file_size = trip.r.transcript_file_size

(***************************************************************************)
(* Properties of the helpers (SpecArith)                                   *)
(***************************************************************************)
\* the sum of the four counters, not wrapped
TrueSum(tokens) ==
  tokens.input_tokens + tokens.output_tokens + tokens.cache_creation_tokens
  + tokens.cache_read_tokens

\* C17 -- derive_total: for all values of the four counters
\* calculate_total_tokens returns success with their sum when the sum is
\* at most 2^64-1 and overflow when it is not, never a wrapped value.
C17_DeriveTotal ==
  arith.op = "calculate_total_tokens" =>
    IF TrueSum(arith.in.tokens) <= UINT64_MAX
      THEN arith.res = OkU64(TrueSum(arith.in.tokens))
      ELSE arith.res = ErrU64(MCCS_ERR_OVERFLOW)

\* the total of four counters whose sum is exactly 2^64 (the first two
\* additions fit, the wrapped sum would be 0) was refused
C17_Witness ==
  /\ arith.op = "calculate_total_tokens"
  /\ arith.in.tokens.cache_read_tokens > 0
  /\ TrueSum(arith.in.tokens) - arith.in.tokens.cache_read_tokens <= UINT64_MAX
  /\ TrueSum(arith.in.tokens) = UINT64_MAX + 1
  /\ ~arith.res.is_ok
  /\ arith.res.err = MCCS_ERR_OVERFLOW

\* C18 -- checked addition: safe_add_uint64 and safe_add_uint32 return
\* success with a + b exactly when a + b is at most the maximum of their
\* width, and overflow otherwise.
C18_CheckedAddition ==
  /\ arith.op = "safe_add_uint64" =>
       IF arith.in.a + arith.in.b <= UINT64_MAX
         THEN arith.res = OkU64(arith.in.a + arith.in.b)
         ELSE arith.res = ErrU64(MCCS_ERR_OVERFLOW)
  /\ arith.op = "safe_add_uint32" =>
       IF arith.in.a + arith.in.b <= UINT32_MAX
         THEN arith.res = OkU32(arith.in.a + arith.in.b)
         ELSE arith.res = ErrU32(MCCS_ERR_OVERFLOW)

\* the largest 64-bit value plus 0 was returned as it is
C18_Witness ==
  /\ arith.op = "safe_add_uint64"
  /\ arith.in.a = UINT64_MAX /\ arith.in.b = 0
  /\ arith.res.is_ok
  /\ arith.res.val = UINT64_MAX

\* C19 -- checked multiplication: safe_mul_uint64 returns success with
\* a * b exactly when a * b is at most 2^64-1 and overflow otherwise; it
\* returns success with 0 when an operand is 0.
C19_CheckedMultiplication ==
  arith.op = "safe_mul_uint64" =>
    /\ IF arith.in.a * arith.in.b <= UINT64_MAX
         THEN arith.res = OkU64(arith.in.a * arith.in.b)
         ELSE arith.res = ErrU64(MCCS_ERR_OVERFLOW)
    /\ (arith.in.a = 0 \/ arith.in.b = 0) => arith.res = OkU64(0)

\* the largest 64-bit value times 0 gave 0
C19_Witness ==
  /\ arith.op = "safe_mul_uint64"
  /\ arith.in.a = UINT64_MAX /\ arith.in.b = 0
  /\ arith.res.is_ok
  /\ arith.res.val = 0

\* NaN, infinite, negative, or greater than the maximum max of the target
Unconvertible(x, max) == ~isfinite(x) \/ x.h < 0 \/ x.h > 2 * max

\* x truncated toward zero, for x >= 0
Truncated(x) == x.h \div 2

\* C20 -- range-checked conversion: safe_double_to_uint64 and
\* safe_double_to_uint32 return invalid-conversion for a value that is
\* NaN, infinite, negative or greater than 2^64-1 (resp. 2^32-1), and
\* success with the value truncated toward zero for every other value.
C20_RangeCheckedConversion ==
  /\ arith.op = "safe_double_to_uint64" =>
       IF Unconvertible(arith.in.x, UINT64_MAX)
         THEN arith.res = ErrU64(MCCS_ERR_INVALID_CONVERSION)
         ELSE arith.res = OkU64(Truncated(arith.in.x))
  /\ arith.op = "safe_double_to_uint32" =>
       IF Unconvertible(arith.in.x, UINT32_MAX)
         THEN arith.res = ErrU32(MCCS_ERR_INVALID_CONVERSION)
         ELSE arith.res = OkU32(Truncated(arith.in.x))

(***************************************************************************)
(* Properties of the invocations' failures (SpecOrch)                      *)
(***************************************************************************)
\* a usage object of the transcript holds a number out of range
HoldsOutOfRange(t) ==
  \E i \in 1..Len(t) :
    /\ CarriesUsage(t[i])
    /\ \E k \in 1..4 : /\ cJSON_IsNumber(UsageFields(t[i])[k])
                       /\ OutOfRange(UsageFields(t[i])[k])

\* the transcript of the invocation cannot be read, or is corrupt
TranscriptFails == ~inv.args.tr.readable \/ HoldsOutOfRange(inv.args.tr.lines)

\* C21 -- failures are shown as omitted statistics: an invocation whose
\* transcript cannot be read or holds an out-of-range usage number leaves
\* the session totals and the context size tagged as not parsed, and
\* returns without a process-level error.
C21_FailuresOmitted ==
  (inv.ran /\ TranscriptFails)
  => /\ inv.result = MCCS_OK
     /\ ~inv.stats.session_tokens_parsed
     /\ ~inv.stats.context_tokens_parsed

\* what the Token Extractor gives on the transcript of the invocation
Extracted == ExtractStats(inv.args.tr, inv.args.needS, inv.args.needC).stats

\* C22 -- load failure means MISS: an invocation whose load_cache failed
\* takes the MISS path and never returns the load error; unless the
\* extraction aborted the process, it leaves for the renderer exactly what
\* the Token Extractor gives on its transcript and returns OK.
C22_LoadFailureMeansMiss ==
  (inv.ran /\ ~inv.load.is_ok)
  => /\ inv.path = "MISS"
     /\ inv.result # inv.load.err
     /\ ~inv.crashed => /\ inv.stats = Extracted
                        /\ inv.result = MCCS_OK

\* a load_cache that timed out on a file holding a record, followed by an
\* extraction that succeeded
C22_Witness ==
  /\ inv.ran /\ ~inv.load.is_ok /\ inv.load.err = MCCS_ERR_IO_ERROR
  /\ inv.args.file.exists /\ ~inv.args.lockOk
  /\ inv.path = "MISS"
  /\ inv.stats.session_tokens_parsed
  /\ inv.stats.session_tokens.total_tokens = 3
  /\ inv.result = MCCS_OK

\* C23 -- save failure is swallowed: on the MISS path save_cache is called
\* once the extraction is over, and whether it succeeded or failed the
\* statistics and parsed flags left for the renderer are the freshly
\* extracted ones and the invocation returns OK.
C23_SaveFailureSwallowed ==
  (inv.ran /\ inv.path = "MISS")
  => /\ inv.saveCalled <=> ~inv.crashed
     /\ inv.saveCalled =>
          /\ inv.stats = Extracted
          /\ inv.result = MCCS_OK
          /\ ~inv.saveOk => inv.saveErr \in {MCCS_ERR_FILE_NOT_FOUND, MCCS_ERR_IO_ERROR}

\* a save_cache that failed on its lock after an extraction that succeeded
C23_Witness ==
  /\ inv.ran /\ inv.path = "MISS" /\ inv.saveCalled
  /\ ~inv.saveOk /\ inv.saveErr = MCCS_ERR_IO_ERROR
  /\ inv.stats.session_tokens_parsed /\ inv.stats.session_tokens.total_tokens = 3
  /\ inv.stats.context_tokens_parsed /\ inv.stats.context_tokens = 2
  /\ inv.result = MCCS_OK

\* C25 -- HIT leaves everything unchanged: on the HIT path the statistics
\* are the session counts and the context count stored in the loaded
\* record, whatever the transcript holds now, save_cache is not called, and
\* the cache file is the one the invocation found, timestamp included.
C25_HitLeavesUnchanged ==
  (inv.ran /\ inv.path = "HIT")
  => /\ inv.load.is_ok
     /\ inv.stats.session_tokens = inv.load.cache.session_tokens
     /\ inv.stats.context_tokens = inv.load.cache.context_tokens.total_tokens
     /\ ~inv.saveCalled
     /\ cacheFile = inv.args.file
     /\ FileRecord = inv.load.cache

\* a HIT one second after the record was written, on a transcript that was
\* replaced by one of the same size in between
C25_Witness ==
  /\ inv.ran /\ inv.path = "HIT"
  /\ inv.stats.session_tokens.total_tokens = 3
  /\ inv.stats.context_tokens = 2
  /\ inv.stats # Extracted
  /\ inv.args.t > inv.load.cache.last_update_time
  /\ FileRecord.last_update_time = inv.load.cache.last_update_time

\* what the Token Extractor gives on the transcript for both metrics
ExtractedBoth == ExtractStats(inv.args.tr, TRUE, TRUE).stats

\* C26 -- refresh overwrites wholesale: the record given to save_cache on
\* the MISS path holds the session counts and the context count the Token
\* Extractor gives on the transcript of the invocation, the transcript's
\* current size (0 when unreadable) and the current time; no count is that
\* of the record loaded before or a default.
C26_RefreshOverwrites ==
  (inv.ran /\ inv.saveCalled)
  => /\ inv.saved.session_tokens = ExtractedBoth.session_tokens
     /\ inv.saved.context_tokens.total_tokens = ExtractedBoth.context_tokens
     /\ inv.saved.transcript_file_size = CurrentSize
     /\ inv.saved.last_update_time = inv.args.t + inv.args.dt

(***************************************************************************)
(* Properties of save_cache's failures (SpecTrip, SpecCache)               *)
(***************************************************************************)
\* C27 -- short write is a hard error: a save_cache that opened and locked
\* the file returns success only when the file holds the complete record
\* afterwards; when less than the record reached the file it returns
\* io-error.
C27_ShortWriteIsError ==
  (trip.done /\ trip.f.openOk /\ trip.f.lockOk)
  => /\ trip.saveOk <=> cacheFile = FileOf(Serialize(trip.r))
     /\ ~trip.saveOk => trip.saveErr = MCCS_ERR_IO_ERROR

\* process p is back from a save_cache that did not get its lock, and no
\* other process has called save_cache on the file, which held PriorRecord
OnlyFailedSave(p) ==
  /\ proc[p].pc = "idle"
  /\ proc[p].ret.kind = "save"
  /\ proc[p].lockRes \in {"timeout", "error"}
  /\ savedArgs = {PriorRecord, RecordOf(p)}
  /\ PriorRecord # RecordOf(p)

\* C29 -- failed save leaves the cache unchanged: after a save_cache that
\* returned an error because the exclusive lock was not acquired, the cache
\* file still holds the record it held before the call.
C29_FailedSaveKeepsRecord ==
  \A p \in Procs :
    OnlyFailedSave(p) => /\ ~proc[p].ret.is_ok
                         /\ cacheFile = FileOf(Serialize(PriorRecord))

\* C30 -- no lock leak: a process outside load_cache and save_cache, and
\* one at their fopen, in the lock loop or at the final fclose, holds no
\* lock; a process holds the one lock of the function it is in; and every
\* step it makes while holding it is the fread or fwrite, which goes on to
\* the unlock, or the unlock itself: no turn of the waiting loop.
C30_NoLockLeak ==
  /\ [](\A p \in Procs :
          /\ proc[p].held \in {"none", "SH", "EX"}
          /\ proc[p].pc \in {"idle", "fopen", "lock", "fclose"} => proc[p].held = "none"
          /\ proc[p].held # "none" =>
               /\ proc[p].held = OperationOf(proc[p].kind)
               /\ proc[p].pc \in {"fread", "fwrite", "unlock"})
  /\ [][\A p \in Procs :
          (StepOf(p) /\ proc[p].held # "none") =>
            /\ proc'[p].attempts = proc[p].attempts
            /\ \/ /\ proc[p].pc \in {"fread", "fwrite"}
                  /\ proc'[p].pc = "unlock"
                  /\ proc'[p].held = proc[p].held
               \/ /\ proc[p].pc = "unlock"
                  /\ proc'[p].held = "none"]_vars

\* both processes are back, one from a load_cache that read the record
\* under its lock, the other from a save_cache that timed out on that lock,
\* and neither holds a lock
C30_Witness ==
  \E p \in Procs : \E q \in Procs \ {p} :
    /\ proc[p].pc = "idle" /\ proc[p].ret.kind = "load" /\ proc[p].lockRes = "ok"
    /\ proc[q].pc = "idle" /\ proc[q].ret.kind = "save" /\ proc[q].lockRes = "timeout"
    /\ proc[p].held = "none" /\ proc[q].held = "none"

\* C24 -- every invocation terminates: whatever the other process does at
\* the same cache file, a process inside load_cache or save_cache can always
\* make a step, makes at most 41 lock attempts, and is back from the call
\* eventually; it makes no more calls than the caller asked for.
C24_Termination ==
  /\ [](\A p \in Procs :
          /\ proc[p].attempts <= MaxAttempts
          /\ proc[p].ops <= MaxOps
          /\ proc[p].pc # "idle" => ENABLED OwnSteps(p))
  /\ (proc[Observed].pc # "idle") ~> (proc[Observed].pc = "idle")

\* the observed process is back from a load_cache that got its lock after
\* waiting for the save_cache of the other process
C24_Witness ==
  /\ proc[Observed].pc = "idle"
  /\ proc[Observed].ret.kind = "load"
  /\ proc[Observed].lockRes = "ok"
  /\ proc[Observed].attempts > 1
  /\ \E q \in Procs \ {Observed} : proc[q].kind = "save"

(***************************************************************************)
(* Properties of calculate_percentage (SpecArith)                          *)
(***************************************************************************)
\* the smaller of two numbers
Min(a, b) == IF a <= b THEN a ELSE b

\* the cap of a percentage
Cap(clamp) == IF clamp THEN PERCENT ELSE UINT32_MAX

\* C28 -- calculate_percentage(tokens, limit, clamp) is 0 when limit = 0;
\* when tokens * 100 fits in 64 bits it is floor(tokens * 100 / limit),
\* capped at 100 with clamp and at UINT32_MAX without; when tokens * 100
\* overflows it is 100 with clamp and UINT32_MAX without; with clamp the
\* result is within 0..100.
C28_Percentage ==
  arith.op = "calculate_percentage" =>
    /\ arith.in.b = 0 => arith.res.val = 0
    /\ (arith.in.b # 0 /\ arith.in.a * PERCENT <= UINT64_MAX)
         => arith.res.val = Min((arith.in.a * PERCENT) \div arith.in.b,
                                Cap(arith.in.clamp))
    /\ (arith.in.b # 0 /\ arith.in.a * PERCENT > UINT64_MAX)
         => arith.res.val = Cap(arith.in.clamp)
    /\ arith.in.clamp => arith.res.val \in 0..PERCENT

\* the largest token count over a limit of 1, not clamped: the product
\* overflows and the result is UINT32_MAX
C28_Witness ==
  /\ arith.op = "calculate_percentage"
  /\ arith.in.a = UINT64_MAX /\ arith.in.b = 1 /\ ~arith.in.clamp
  /\ arith.res.val = UINT32_MAX

====
